---- MODULE Spec2Model ----
(***************************************************************************)
(* State-machine model of the twitter-climate-sentiment-pipeline bolts.    *)
(*                                                                         *)
(*   SpecDedup : the dedup stage (DedupBolt), DedupPar instances, each a   *)
(*               single-threaded streamparse process that handles one      *)
(*               tuple at a time, so process() is one atomic action.       *)
(*   SpecLRU   : DedupBolt._add_to_cache driven directly with pairwise     *)
(*               distinct keys (tests/test_core_bolts.py).                 *)
(*   SpecDedupHit : the dedup stage with the history of one cache hit.     *)
(*   SpecDedupWindow : the dedup stage with the window of one id.          *)
(*   SpecGeoTiers : GeoResolveBolt on one worker, every kind of tuple.     *)
(*   SpecGeo   : the geolocation stage (GeoResolveBolt), GeoPar workers    *)
(*               sharing one Redis store, with a discrete clock.           *)
(*   SpecLang  : LangDetectBolt._detect_language with its two detectors.   *)
(*   SpecWeather : the aggregation and classification functions of         *)
(*               NOAAEnrichBolt, each applied to inputs of its own.        *)
(*   SpecNoaa  : the weather stage (NOAAEnrichBolt) with its NOAAClient    *)
(*               and the station cache.                                    *)
(*   SpecSent  : SentimentModel.compute_sentiment with its three scorers.  *)
(*   SpecClean : CleanBolt.process with transformations that may raise.    *)
(*   SpecParse : ParseBolt.process on well formed and malformed tuples.    *)
(*   SpecSpout : TwitterSpout under Storm, polling the API or a local file.*)
(*   SpecPipeline : the records on their way from the spout to the write   *)
(*               buffer, in the Storm topology and in run_local_mode.      *)
(*   SpecNoaaClient : NOAAClient._make_request with its daily counter.     *)
(***************************************************************************)
EXTENDS Integers, Sequences, FiniteSets, TLC

VARIABLES
    \* ---- DedupBolt (one entry per instance of the dedup stage) ----
    max_cache_size,      \* self.max_cache_size
    seen_tweet_ids,      \* self.seen_tweet_ids   (OrderedDict: key order, oldest first)
    seen_text_hashes,    \* self.seen_text_hashes (OrderedDict: key order, oldest first)
    last,                \* history: the most recent process() call and its outcome
    track,               \* history: one cache hit, and the keys that were cached with it
    \* ---- _add_to_cache driven directly ----
    added,               \* history: the (id, hash) pairs added so far, in order
    \* ---- GeoResolveBolt (one entry per worker of the geolocation stage) ----
    now,                 \* time.time(), in ticks
    redis,               \* the Redis store behind self.cache, shared by the workers
    geocoder_ok,         \* self.geocoder is not None (GEOPY_AVAILABLE)
    cache_ok,            \* self.cache is not None, per worker
    last_geocode_time,   \* self.last_geocode_time, per worker
    geo_pc,              \* where each worker stands: idle, sleep (rate limit), call
    geo_job,             \* the tuple a worker is resolving and the time its sleep ends
    geo_last,            \* history: what the latest step returned or sent, if it did
    last_call,           \* history: when the latest geocoder call was sent
    fresh,               \* history: per location, the last geocoded result cached
    \* ---- LangDetectBolt ----
    model_loaded,        \* self.model_loaded and self.model (the fastText model)
    langdetect_available,\* LANGDETECT_AVAILABLE
    lang_last,           \* history: the latest _detect_language call and what it returned
    \* ---- NOAAEnrichBolt: its functions applied on their own ----
    weather_last,        \* history: the latest function applied, its input and its result
    \* ---- NOAAEnrichBolt and its NOAAClient ----
    api_token,           \* self.api_token is set
    noaa_cache_ok,       \* NOAAClient.cache is not None
    station_cache,       \* the noaa:station:* keys of the Redis store
    noaa_pc,             \* where _enrich_with_noaa stands: idle, station, observations
    noaa_job,            \* the record being enriched and what was found for it so far
    noaa_last,           \* history: the latest _enrich_with_noaa call that returned
    \* ---- SentimentModel ----
    model_en,            \* self.model_en is not None
    model_multilingual,  \* self.model_multilingual is not None
    vader,               \* self.vader is not None
    sent_pc,             \* where compute_sentiment stands: idle, transformer, vader
    sent_job,            \* the call being computed
    sent_last,           \* history: the latest compute_sentiment call and its result
    \* ---- CleanBolt ----
    emoji_available,     \* EMOJI_AVAILABLE
    contractions_available, \* CONTRACTIONS_AVAILABLE
    clean_processed,     \* self.processed
    clean_failed,        \* self.failed
    clean_last,          \* history: the latest process() call and what it did with the tuple
    \* ---- ParseBolt ----
    parse_processed,     \* self.processed
    parse_failed,        \* self.failed
    parse_last,          \* history: the latest process() call and what it did with the tuple
    \* ---- TwitterSpout ----
    use_local_file,      \* self.use_local_file
    bearer_token,        \* self.bearer_token is set
    local_file,          \* the tweets in the file at self.local_file_path, if it can be read
    tweet_buffer,        \* self.tweet_buffer
    buffer_index,        \* self.buffer_index
    last_tweet_id,       \* self.last_tweet_id
    last_poll_time,      \* self.last_poll_time
    backoff_seconds,     \* self.backoff_seconds
    rate_limit_hits,     \* self.rate_limit_hits
    spout_now,           \* time.time(), in ticks of one poll interval
    pending,             \* Storm: the tuple ids emitted and neither acked nor failed yet
    spout_failed,        \* history: the tuple ids fail() was called for
    spout_last,          \* history: the tweet the latest step emitted, if it emitted one
    \* ---- the topology and run_local_mode ----
    mode,                \* how the pipeline runs: "topology" (Storm) or "local" (run_local_mode)
    next_id,             \* the next tweet the spout hands out
    inbox,               \* Storm: per bolt, the tuples sent to it and not processed yet
    write_buffer,        \* WriteBolt.buffer
    local_pc,            \* run_local_mode: the step of the loop body that comes next
    local_rec,           \* run_local_mode: the dict the loop body holds (parsed, cleaned)
    handed,              \* history: every record appended to WriteBolt.buffer, in order
    stage_last,          \* history: the latest stage call, the dict it got and what it emitted
    write_processed,     \* WriteBolt.processed
    records_written,     \* WriteBolt.records_written
    \* ---- NOAAClient, the request counter ----
    request_count,             \* self.request_count
    request_count_reset_time,  \* self.request_count_reset_time, in days
    client_now,                \* time.time(), in days since the client was made
    uncounted,                 \* history: requests sent since the reset and not counted
    client_last                \* history: the latest _make_request, if it sent a request

dedupVars == <<max_cache_size, seen_tweet_ids, seen_text_hashes, last, track>>
lruVars == <<added>>
geoVars == <<now, redis, geocoder_ok, cache_ok, last_geocode_time, geo_pc, geo_job,
             geo_last, last_call, fresh>>
langVars == <<model_loaded, langdetect_available, lang_last>>
weatherVars == <<weather_last>>
noaaVars == <<api_token, noaa_cache_ok, station_cache, noaa_pc, noaa_job, noaa_last>>
sentVars == <<model_en, model_multilingual, vader, sent_pc, sent_job, sent_last>>
cleanVars == <<emoji_available, contractions_available, clean_processed, clean_failed, clean_last>>
parseVars == <<parse_processed, parse_failed, parse_last>>
spoutVars == <<use_local_file, bearer_token, local_file, tweet_buffer, buffer_index,
               last_tweet_id, last_poll_time, backoff_seconds, rate_limit_hits, spout_now,
               pending, spout_failed, spout_last>>
pipeVars == <<mode, next_id, inbox, write_buffer, local_pc, local_rec, handed, stage_last,
              write_processed, records_written>>
clientVars == <<request_count, request_count_reset_time, client_now, uncounted, client_last>>
topoVars == <<cleanVars, parseVars, spoutVars, pipeVars, clientVars>>
laterVars == <<langVars, weatherVars, noaaVars, sentVars, topoVars>>
vars == <<dedupVars, lruVars, geoVars, laterVars>>

NoneV == "None"

(***************************************************************************)
(* Bounds of the model.                                                    *)
(***************************************************************************)
MaxCap == 2          \* capacities 1..MaxCap are explored
NumIds == 3          \* distinct tweet ids offered
TicksPerSecond == 1  \* resolution of the clock
MaxTicks == 1        \* ticks the clock advances one by one
MaxObs == 3          \* observations in a list that is aggregated

(***************************************************************************)
(* Text: a str is a sequence of characters.                                *)
(***************************************************************************)
LowerChar(c) == CASE c = "A" -> "a" [] c = "B" -> "b" [] c = "P" -> "p" [] OTHER -> c

\* str.lower()
Lower(s) == [i \in DOMAIN s |-> LowerChar(s[i])]

IsSpace(c) == c = " "

RECURSIVE LStrip(_)
LStrip(s) == IF s # <<>> /\ IsSpace(Head(s)) THEN LStrip(Tail(s)) ELSE s

RECURSIVE RStrip(_)
RStrip(s) == IF s # <<>> /\ IsSpace(s[Len(s)]) THEN RStrip(SubSeq(s, 1, Len(s) - 1)) ELSE s

\* str.strip()
Strip(s) == RStrip(LStrip(s))

\* hashlib.md5(...).hexdigest(): a digest of the bytes, taken as collision free
Md5Hex(s) == <<"md5">> \o s

\* a fingerprint of the text as it is
ComputeTextHashExact(text) == Md5Hex(text)

\* DedupBolt._compute_text_hash: lower, then strip, then digest
ComputeTextHash(text) == Md5Hex(Strip(Lower(text)))

(***************************************************************************)
(* collections.OrderedDict with all values True: the sequence of its keys. *)
(***************************************************************************)
Keys(od) == {od[i] : i \in DOMAIN od}

Contains(od, k) == k \in Keys(od)

RECURSIVE Without(_, _)
Without(od, k) ==
    IF od = <<>> THEN <<>>
    ELSE IF Head(od) = k THEN Without(Tail(od), k)
    ELSE <<Head(od)>> \o Without(Tail(od), k)

\* od.move_to_end(k)
MoveToEnd(od, k) == Without(od, k) \o <<k>>

\* od[k] = True: a new key goes last, an existing key keeps its place
SetItem(od, k) == IF Contains(od, k) THEN od ELSE Append(od, k)

\* od.popitem(last=False)
PopFirst(od) == Tail(od)

(***************************************************************************)
(* The geolocation stage as GeoResolveBolt.initialize leaves it.           *)
(***************************************************************************)
\* topology.py: geo_resolve_bolt = GeoResolveBolt.spec(..., par=2)
GeoPar == 2

\* GeoResolveBolt.GEOCODING_DELAY, in seconds
GEOCODING_DELAY == 1

\* GeoResolveBolt.CACHE_TTL, in seconds
CACHE_TTL == 7 * 24 * 60 * 60

DelayTicks == GEOCODING_DELAY * TicksPerSecond

CacheTtlTicks == CACHE_TTL * TicksPerSecond

GeoWorkers == 1..GeoPar

None == <<>>

Some(v) == <<v>>

LocationStrings == {<<>>, <<" ">>, <<"p">>, <<" ", "P">>}

\* a cache key that keeps the case of the location string
GeoCacheKeyCaseSensitive(location_string) == <<"geocode:">> \o location_string

\* _geocode_location: cache_key = f"geocode:{location_string.lower()}"
GeoCacheKey(location_string) == <<"geocode:">> \o Lower(location_string)

GeoCacheKeys == {GeoCacheKey(Strip(l)) : l \in LocationStrings}
                \cup {<<"geocode:">> \o Strip(l) : l \in LocationStrings}

\* json.dumps({'lat': ..., 'lon': ...}) and json.loads back to (lat, lon)
JsonDumps(coords) == [lat |-> coords[1], lon |-> coords[2]]

JsonLoads(value) == <<value.lat, value.lon>>

NoEntry == [set |-> FALSE, value |-> JsonDumps(<<0, 0>>), expires |-> 0]

NoJob == [tup |-> NoneV, location_string |-> <<>>, wake |-> 0, called |-> FALSE,
          cache_read |-> FALSE, expect |-> None]

NoResolution == [worker |-> 0, given |-> NoneV, result |-> None, geocoded |-> None,
                 reply |-> "none", tried_place |-> FALSE, tried_location |-> FALSE,
                 called |-> FALSE, cache_hit |-> FALSE, cache_read |-> FALSE,
                 expect |-> None, gap |-> None]

\* the clock starts well past the epoch: time.time() - 0 is no less than the delay
GeoStart ==
    /\ now = DelayTicks
    /\ redis = [k \in GeoCacheKeys |-> NoEntry]
    /\ last_geocode_time = [w \in GeoWorkers |-> 0]
    /\ geo_pc = [w \in GeoWorkers |-> "idle"]
    /\ geo_job = [w \in GeoWorkers |-> NoJob]
    /\ geo_last = NoResolution
    /\ last_call = None
    /\ fresh = [k \in GeoCacheKeys |-> NoEntry]

\* round(n / d): to the nearest whole number; a tie goes where the binary
\* representation of the float falls, up or down
RoundDiv(n, d, up) ==
    LET q == n \div d
        r == n % d
    IN  IF 2 * r < d THEN q ELSE IF 2 * r > d THEN q + 1 ELSE IF up THEN q + 1 ELSE q

(***************************************************************************)
(* The later stages as their initialize leaves them.                       *)
(***************************************************************************)
NoDetection == [called |-> FALSE, text |-> NoneV, lang |-> None, result |-> None,
                primary_invoked |-> FALSE, secondary_invoked |-> FALSE,
                primary |-> None, secondary |-> None]

\* LangDetectBolt.initialize without fastText model and without langdetect
LangStart ==
    /\ model_loaded = FALSE
    /\ langdetect_available = FALSE
    /\ lang_last = NoDetection

NoWeather == [op |-> "none", metrics |-> NoneV, observations |-> <<>>, tweet_time |-> 0,
              event_type |-> NoneV, result |-> NoneV]

WeatherStart == weather_last = NoWeather

\* the coordinates of a record and of a station: hundred-thousandths of a degree;
\* the keys of the station cache hold the coordinate with two decimals
PointA == 2976400
PointB == 2976000
Longitude == -9536000

\* f"{lat:.2f}"
Format2f(x) == RoundDiv(x, 1000, TRUE)

\* f"noaa:station:{lat:.2f}:{lon:.2f}:{max_distance_km}"
StationCacheKey(lat, lon, max_distance_km) == <<Format2f(lat), Format2f(lon), max_distance_km>>

\* NOAAEnrichBolt.MAX_STATION_DISTANCE_KM
MAX_STATION_DISTANCE_KM == 50

\* the geo_lat values of the records: two points that share a cache key
QueryLats == {PointA, PointB}

StationCacheKeys == {StationCacheKey(lat, Longitude, MAX_STATION_DISTANCE_KM) : lat \in QueryLats}

NoEnrichJob == [tweet |-> NoneV, station |-> None, from_cache |-> FALSE,
                stations |-> None, requested |-> FALSE]

NoEnrichment == [returned |-> FALSE, tweet |-> NoneV, looked_up |-> FALSE,
                 queried |-> FALSE, station |-> None, from_cache |-> FALSE,
                 stations |-> None, requested |-> FALSE, observations |-> None,
                 result |-> None]

\* NOAAEnrichBolt.initialize with a client that has neither token nor cache
NoaaStart ==
    /\ api_token = FALSE
    /\ noaa_cache_ok = FALSE
    /\ station_cache = [k \in StationCacheKeys |-> None]
    /\ noaa_pc = "idle"
    /\ noaa_job = NoEnrichJob
    /\ noaa_last = NoEnrichment

NoSentimentJob == [language |-> NoneV, emoji_sentiment_score |-> 0, method_name |-> None,
                   reply |-> None]

NoSentiment == [returned |-> FALSE, language |-> NoneV, emoji_sentiment_score |-> 0,
                method_name |-> None, reply |-> None, lexicon |-> None, result |-> NoneV]

\* SentimentModel() with no scorer available
SentStart ==
    /\ model_en = FALSE
    /\ model_multilingual = FALSE
    /\ vader = FALSE
    /\ sent_pc = "idle"
    /\ sent_job = NoSentimentJob
    /\ sent_last = NoSentiment

NoCleaning == [called |-> FALSE, throws |-> {}, threw |-> {}, emitted |-> None,
               failed |-> FALSE]

\* CleanBolt.initialize with both optional libraries missing
CleanStart ==
    /\ emoji_available = FALSE
    /\ contractions_available = FALSE
    /\ clean_processed = 0
    /\ clean_failed = 0
    /\ clean_last = NoCleaning

NoParsing == [called |-> FALSE, tweet_data |-> NoneV, emitted |-> None, failed |-> FALSE,
              acked |-> FALSE, counted |-> 0]

\* ParseBolt.initialize
ParseStart ==
    /\ parse_processed = 0
    /\ parse_failed = 0
    /\ parse_last = NoParsing

NoEmission == [emitted |-> None, failed_before |-> FALSE, local |-> FALSE,
               polled |-> FALSE, request |-> None]

\* TwitterSpout.initialize without a token and without USE_LOCAL_FILE
SpoutStart ==
    /\ use_local_file = FALSE
    /\ bearer_token = FALSE
    /\ local_file = None
    /\ tweet_buffer = <<>>
    /\ buffer_index = 0
    /\ last_tweet_id = None
    /\ last_poll_time = 0
    /\ backoff_seconds = 0
    /\ rate_limit_hits = 0
    /\ spout_now = 1
    /\ pending = {}
    /\ spout_failed = {}
    /\ spout_last = NoEmission

\* the bolts in the order of the topology
Bolts == <<"parse", "dedup", "clean", "lang", "geo", "noaa", "sentiment", "write">>

BoltSet == {Bolts[i] : i \in DOMAIN Bolts}

NoRecord == [id |-> 0, keys |-> {}, processing_stage |-> NoneV, processed |-> <<>>,
             failed |-> {}]

NoStage == [stage |-> NoneV, received |-> NoRecord, received_after |-> NoRecord,
            emitted |-> None]

\* the topology before the spout has emitted anything
PipeStart ==
    /\ mode = "topology"
    /\ next_id = 1
    /\ inbox = [b \in BoltSet |-> {}]
    /\ write_buffer = <<>>
    /\ local_pc = "spout"
    /\ local_rec = NoRecord
    /\ handed = <<>>
    /\ stage_last = NoStage
    /\ write_processed = 0
    /\ records_written = 0

NoRequest == [sent |-> FALSE, counted |-> 0]

\* NOAAClient.__init__
ClientStart ==
    /\ request_count = 0
    /\ request_count_reset_time = 0
    /\ client_now = 0
    /\ uncounted = 0
    /\ client_last = NoRequest

TopoStart == CleanStart /\ ParseStart /\ SpoutStart /\ PipeStart /\ ClientStart

LaterStart == LangStart /\ WeatherStart /\ NoaaStart /\ SentStart /\ TopoStart

(***************************************************************************)
(* DedupBolt.  The counters processed, duplicates_dropped, retweets_dropped *)
(* and unique_emitted feed the log lines only and are left out, so that     *)
(* call sequences of every length are explored.                             *)
(***************************************************************************)
\* two uncoordinated instances of the dedup stage
DedupParTwo == 1 + 1

\* topology.py: dedup_bolt = DedupBolt.spec(..., par=1)
DedupPar == 1

DedupInstances == 1..DedupPar

TweetIds == 1..NumIds

Texts == {<<"a">>, <<" ", "A">>, <<"b">>, <<"a", "b">>}

\* tweet_data['text']: a str, None, or the key is missing
TextValues == [kind : {"str"}, val : Texts] \cup [kind : {"none", "missing"}, val : {<<>>}]

\* the tuples ParseBolt (or a test) hands to process()
Tuples == [tweet_id : TweetIds, text : TextValues, retweet_status : BOOLEAN]

TextHashes == {ComputeTextHash(t) : t \in Texts \cup {<<>>}}

\* a lookup that finds its key and leaves it where it is
IsDuplicateIdNoRefresh(ids, tweet_id) == [dup |-> Contains(ids, tweet_id), cache |-> ids]

\* a lookup that never finds its key
IsDuplicateIdNever(ids, tweet_id) == [dup |-> FALSE, cache |-> ids]

\* DedupBolt._is_duplicate_id: membership, and a hit moves the key to the end
IsDuplicateId(ids, tweet_id) ==
    IF Contains(ids, tweet_id)
    THEN [dup |-> TRUE, cache |-> MoveToEnd(ids, tweet_id)]
    ELSE [dup |-> FALSE, cache |-> ids]

\* a fingerprint lookup that never finds its key
IsDuplicateHashNever(hashes, text_hash) == [dup |-> FALSE, cache |-> hashes]

\* a fingerprint lookup whose hit takes the key out of the cache
IsDuplicateHashPop(hashes, text_hash) ==
    IF Contains(hashes, text_hash)
    THEN [dup |-> TRUE, cache |-> Without(hashes, text_hash)]
    ELSE [dup |-> FALSE, cache |-> hashes]

\* DedupBolt._is_duplicate_hash
IsDuplicateHash(hashes, text_hash) ==
    IF Contains(hashes, text_hash)
    THEN [dup |-> TRUE, cache |-> MoveToEnd(hashes, text_hash)]
    ELSE [dup |-> FALSE, cache |-> hashes]

\* insert and never evict
AddKeyNoEvict(od, k, cap) == SetItem(od, k)

\* insert, and evict already when the cache is just full
AddKeyEvictEarly(od, k, cap) ==
    LET od1 == SetItem(od, k)
    IN  IF Len(od1) >= cap THEN PopFirst(od1) ELSE od1

\* one half of _add_to_cache: insert, then evict the oldest if over capacity
AddKey(od, k, cap) ==
    LET od1 == SetItem(od, k)
    IN  IF Len(od1) > cap THEN PopFirst(od1) ELSE od1

\* DedupBolt._add_to_cache
AddToCache(ids, hashes, tweet_id, text_hash, cap) ==
    [ids |-> AddKey(ids, tweet_id, cap), hashes |-> AddKey(hashes, text_hash, cap)]

\* tweet_data.get('text', '')
GetText(tup) == IF tup.text.kind = "missing" THEN [kind |-> "str", val |-> <<>>] ELSE tup.text

\* DedupBolt.process, as a function of the caches and the tuple:
\* outcome, the caches afterwards, and whether the fingerprint cache was consulted
ProcessResult(ids, hashes, cap, tup) ==
    IF tup.retweet_status
    THEN [outcome |-> "retweet", ids |-> ids, hashes |-> hashes, hash_looked_up |-> FALSE]
    ELSE LET idr == IsDuplicateId(ids, tup.tweet_id)
         IN  IF idr.dup
             THEN [outcome |-> "duplicate_id", ids |-> idr.cache, hashes |-> hashes,
                   hash_looked_up |-> FALSE]
             ELSE LET text == GetText(tup)
                  IN  IF text.kind = "none"
                      \* None.lower() raises AttributeError: except branch, self.fail(tup)
                      THEN [outcome |-> "failed", ids |-> idr.cache, hashes |-> hashes,
                            hash_looked_up |-> FALSE]
                      ELSE LET text_hash == ComputeTextHash(text.val)
                               hr == IsDuplicateHash(hashes, text_hash)
                           IN  IF hr.dup
                               THEN [outcome |-> "duplicate_hash", ids |-> idr.cache,
                                     hashes |-> hr.cache, hash_looked_up |-> TRUE]
                               ELSE LET c == AddToCache(idr.cache, hr.cache, tup.tweet_id,
                                                        text_hash, cap)
                                    IN  [outcome |-> "emitted", ids |-> c.ids,
                                         hashes |-> c.hashes, hash_looked_up |-> TRUE]

NoCall == [inst |-> 0, tup |-> NoneV, outcome |-> "none", hash_looked_up |-> FALSE,
           evicted |-> FALSE, follows_admit |-> FALSE]

NoTrack == [cache |-> "none", inst |-> 0, id |-> 0, hash |-> <<>>, others |-> 0,
            pending |-> {}, older |-> {}, evicted |-> FALSE]

\* DedupBolt.initialize, one per instance of the stage (the geolocation stage is
\* left as GeoResolveBolt.initialize leaves it, and does not move)
Init ==
    /\ LaterStart
    /\ GeoStart
    /\ geocoder_ok = TRUE
    /\ cache_ok = [w \in GeoWorkers |-> TRUE]
    /\ added = <<>>
    /\ max_cache_size \in [DedupInstances -> 1..MaxCap]
    /\ seen_tweet_ids = [i \in DedupInstances |-> <<>>]
    /\ seen_text_hashes = [i \in DedupInstances |-> <<>>]
    /\ last = NoCall
    /\ track = NoTrack

ProcessCaches(i, r) ==
    /\ seen_tweet_ids' = [seen_tweet_ids EXCEPT ![i] = r.ids]
    /\ seen_text_hashes' = [seen_text_hashes EXCEPT ![i] = r.hashes]
    /\ UNCHANGED max_cache_size

\* DedupBolt.process(tup) on instance i.
\* last.follows_admit: the call before, on this instance, emitted a tuple with the
\* same tweet_id and another text.
Process(i, tup) ==
    LET r == ProcessResult(seen_tweet_ids[i], seen_text_hashes[i], max_cache_size[i], tup)
    IN  /\ ProcessCaches(i, r)
        /\ last' = [inst |-> i, tup |-> tup, outcome |-> r.outcome,
                    hash_looked_up |-> r.hash_looked_up,
                    evicted |-> \/ Keys(seen_tweet_ids[i]) \ Keys(r.ids) # {}
                                \/ Keys(seen_text_hashes[i]) \ Keys(r.hashes) # {},
                    follows_admit |-> /\ last.outcome = "emitted"
                                      /\ last.inst = i
                                      /\ last.tup.tweet_id = tup.tweet_id
                                      /\ last.tup.text # tup.text]
        /\ UNCHANGED track

(***************************************************************************)
(* The history of one cache hit.  On a lookup that finds its key the       *)
(* history may start over (start):                                         *)
(*   pending : the other keys cached at that hit and not evicted since     *)
(*   older   : pending, less the keys that a later lookup found            *)
(*   others  : how many other keys were cached at that hit                 *)
(*   evicted : the key of the hit has been evicted since                   *)
(***************************************************************************)
TrackAfter(t, i, tup, r, start) ==
    LET idsBefore == Keys(seen_tweet_ids[i])
        hashesBefore == Keys(seen_text_hashes[i])
        text_hash == ComputeTextHash(GetText(tup).val)
    IN  IF start /\ r.outcome = "duplicate_id"
        THEN [cache |-> "id", inst |-> i, id |-> tup.tweet_id, hash |-> <<>>,
              others |-> Cardinality(idsBefore \ {tup.tweet_id}),
              pending |-> idsBefore \ {tup.tweet_id}, older |-> idsBefore \ {tup.tweet_id},
              evicted |-> FALSE]
        ELSE IF start /\ r.outcome = "duplicate_hash"
        THEN [cache |-> "hash", inst |-> i, id |-> 0, hash |-> text_hash,
              others |-> Cardinality(hashesBefore \ {text_hash}),
              pending |-> hashesBefore \ {text_hash}, older |-> hashesBefore \ {text_hash},
              evicted |-> FALSE]
        ELSE IF t.inst # i \/ t.evicted
        THEN t
        ELSE IF t.cache = "id"
        THEN LET gone == idsBefore \ Keys(r.ids)
             IN  [t EXCEPT !.pending = @ \ gone,
                           !.older = (@ \ gone) \ (IF r.outcome = "duplicate_id"
                                                   THEN {tup.tweet_id} ELSE {}),
                           !.evicted = t.id \in gone]
        ELSE IF t.cache = "hash"
        THEN LET gone == hashesBefore \ Keys(r.hashes)
             IN  [t EXCEPT !.pending = @ \ gone,
                           !.older = (@ \ gone) \ (IF r.outcome = "duplicate_hash"
                                                   THEN {text_hash} ELSE {}),
                           !.evicted = t.hash \in gone]
        ELSE t

\* DedupBolt.process(tup) on instance i, with the history of one hit
ProcessTracked(i, tup, start) ==
    LET r == ProcessResult(seen_tweet_ids[i], seen_text_hashes[i], max_cache_size[i], tup)
    IN  /\ start => r.outcome \in {"duplicate_id", "duplicate_hash"}
        /\ ~track.evicted
        /\ ProcessCaches(i, r)
        /\ track' = TrackAfter(track, i, tup, r, start)
        /\ UNCHANGED last

DedupNext == \E i \in DedupInstances, tup \in Tuples : Process(i, tup) /\ UNCHANGED <<lruVars, geoVars, laterVars>>

TrackedNext ==
    \E i \in DedupInstances, tup \in Tuples, start \in BOOLEAN :
        ProcessTracked(i, tup, start) /\ UNCHANGED <<lruVars, geoVars, laterVars>>

\* the dedup stage of the topology
SpecDedup == Init /\ [][DedupNext]_vars

\* the dedup stage, following one cache hit until its key is evicted
SpecDedupHit == Init /\ [][TrackedNext]_vars

(***************************************************************************)
(* The window of one id.  The history may start on a call that inserts or  *)
(* hits an id, and starts over whenever that id is inserted or hit again:  *)
(*   id       : the id followed                                            *)
(*   others   : how many tuples with other ids were emitted since (counted *)
(*              up to MaxCap + 1)                                          *)
(*   pending  : the other ids inserted or hit since                        *)
(*   evicted  : the id has left the identity cache since                   *)
(*   own      : the outcome of this call, when its tuple has the id        *)
(*              followed and is no repost ("none" otherwise)               *)
(*   uncached : that tuple has a text, whose fingerprint was not cached    *)
(***************************************************************************)
Window(i, id, outcome, uncached) ==
    [cache |-> "window", inst |-> i, id |-> id, others |-> 0, pending |-> {},
     evicted |-> FALSE, own |-> outcome, uncached |-> uncached]

WindowAfter(t, i, tup, r, start) ==
    LET touched == r.outcome \in {"emitted", "duplicate_id"}
        uncached == /\ tup.text.kind # "none"
                    /\ ComputeTextHash(GetText(tup).val) \notin Keys(seen_text_hashes[i])
    IN  IF start
        THEN Window(i, tup.tweet_id, r.outcome, uncached)
        ELSE IF t.cache # "window" \/ t.inst # i
        THEN t
        ELSE IF tup.tweet_id = t.id
        THEN IF touched THEN Window(i, t.id, r.outcome, uncached)
             ELSE IF tup.retweet_status THEN [t EXCEPT !.own = "none", !.uncached = FALSE]
             ELSE [t EXCEPT !.own = r.outcome, !.uncached = uncached]
        ELSE IF t.evicted
        THEN [t EXCEPT !.own = "none", !.uncached = FALSE]
        ELSE [t EXCEPT !.others = IF r.outcome = "emitted" /\ @ <= MaxCap THEN @ + 1 ELSE @,
                       !.pending = IF touched THEN @ \cup {tup.tweet_id} ELSE @,
                       !.evicted = t.id \notin Keys(r.ids),
                       !.own = "none", !.uncached = FALSE]

\* DedupBolt.process(tup) on instance i, with the window of one id
ProcessWindow(i, tup, start) ==
    LET r == ProcessResult(seen_tweet_ids[i], seen_text_hashes[i], max_cache_size[i], tup)
    IN  /\ start => track.cache = "none" /\ r.outcome \in {"emitted", "duplicate_id"}
        /\ ProcessCaches(i, r)
        /\ track' = WindowAfter(track, i, tup, r, start)
        /\ UNCHANGED last

WindowNext ==
    \E i \in DedupInstances, tup \in Tuples, start \in BOOLEAN :
        ProcessWindow(i, tup, start) /\ UNCHANGED <<lruVars, geoVars, laterVars>>

\* the dedup stage, following one id from an insertion or a hit
SpecDedupWindow == Init /\ [][WindowNext]_vars

(***************************************************************************)
(* _add_to_cache called directly, from empty caches, with keys that are    *)
(* pairwise distinct (test_cache_lru_eviction).                            *)
(***************************************************************************)
AddedIds == {added[n][1] : n \in DOMAIN added}

AddedHashes == {added[n][2] : n \in DOMAIN added}

AddDistinct(i, tweet_id, text_hash) ==
    /\ Len(added) <= max_cache_size[i]
    /\ tweet_id \notin AddedIds
    /\ text_hash \notin AddedHashes
    /\ LET c == AddToCache(seen_tweet_ids[i], seen_text_hashes[i], tweet_id, text_hash,
                           max_cache_size[i])
       IN  /\ seen_tweet_ids' = [seen_tweet_ids EXCEPT ![i] = c.ids]
           /\ seen_text_hashes' = [seen_text_hashes EXCEPT ![i] = c.hashes]
    /\ added' = Append(added, <<tweet_id, text_hash>>)
    /\ UNCHANGED <<max_cache_size, last, track, geoVars, laterVars>>

LRUNext == \E tweet_id \in TweetIds, text_hash \in TextHashes : AddDistinct(1, tweet_id, text_hash)

SpecLRU == Init /\ [][LRUNext]_vars

(***************************************************************************)
(* GeoResolveBolt.  An optional value is <<>> (None) or <<v>>.  Time is    *)
(* counted in ticks of 1/TicksPerSecond s.  Latitudes and longitudes are   *)
(* numbers, as the Twitter API and the geocoder deliver them.  The counters *)
(* of the bolt feed the log lines only and are left out.                   *)
(***************************************************************************)
\* tweet_data['coordinates']: None, a non-dict, an empty dict, or a dict
CoordinateValues ==
    [kind : {"none", "list", "empty_dict"}, lat : {None}, lon : {None}]
    \cup [kind : {"dict"}, lat : {None, Some(0), Some(29)}, lon : {None, Some(0)}]

NoGeo == [kind |-> "missing", bbox |-> None, depth |-> 0, data |-> <<>>]

GeoOf(bbox, depth, data) == [kind |-> "dict", bbox |-> bbox, depth |-> depth, data |-> data]

\* tweet_data['place']: None, a non-dict, or a dict whose 'geo' is missing, None or a
\* dict with 'bbox' and/or 'coordinates' (depth 1: a point, 2: a list of [lon, lat]
\* pairs, 3: a list of rings of pairs)
PlaceValues ==
    {[kind |-> "none", full_name |-> None, geo |-> NoGeo],
     [kind |-> "str", full_name |-> None, geo |-> NoGeo],
     [kind |-> "dict", full_name |-> None, geo |-> NoGeo],
     [kind |-> "dict", full_name |-> Some("Miami"),
      geo |-> [kind |-> "null", bbox |-> None, depth |-> 0, data |-> <<>>]],
     [kind |-> "dict", full_name |-> Some("Miami"),
      geo |-> GeoOf(Some(<<-80, 24, -78, 26>>), 0, <<>>)],
     [kind |-> "dict", full_name |-> Some("Miami"),
      geo |-> GeoOf(Some(<<-80, 24, -78>>), 0, <<>>)],
     [kind |-> "dict", full_name |-> Some("Miami"),
      geo |-> GeoOf(Some(<<-80, 24, -78>>), 3, << <<<<2, 4>>, <<4, 8>>, <<0>>, <<0, 0>>>> >>)],
     [kind |-> "dict", full_name |-> Some("Miami"),
      geo |-> GeoOf(None, 3, << <<<<2, 4>>, <<4, 8>>, <<0>>, <<0, 0>>>> >>)],
     [kind |-> "dict", full_name |-> Some("Miami"), geo |-> GeoOf(None, 3, << <<<<7>>>> >>)],
     [kind |-> "dict", full_name |-> Some("Miami"), geo |-> GeoOf(None, 3, << <<>> >>)],
     [kind |-> "dict", full_name |-> Some("Miami"),
      geo |-> GeoOf(None, 2, <<<<0, 0>>, <<2, 4>>>>)],
     [kind |-> "dict", full_name |-> Some("Miami"), geo |-> GeoOf(None, 1, <<-80, 25>>)],
     [kind |-> "dict", full_name |-> Some("Miami"), geo |-> GeoOf(None, 2, <<>>)]}

\* tweet_data['user_location']: None, a non-str, or a str
LocationValues == [kind : {"none", "int"}, val : {<<>>}] \cup [kind : {"str"}, val : LocationStrings]

AllGeoTuples ==
    [coordinates : CoordinateValues, place : PlaceValues, user_location : LocationValues]

\* the tuples offered: each field takes all its values while the others take a few
GeoTuples ==
    {t \in AllGeoTuples :
        \/ /\ t.place.kind = "none" \/ (t.place.geo.bbox # None /\ t.place.geo.depth = 0
                                          /\ Len(t.place.geo.bbox[1]) = 4)
           /\ t.user_location = [kind |-> "str", val |-> <<"p">>]
        \/ /\ t.coordinates \in {[kind |-> "none", lat |-> None, lon |-> None],
                                  [kind |-> "dict", lat |-> None, lon |-> None]}
           /\ t.user_location = [kind |-> "str", val |-> <<"p">>]
        \/ /\ t.coordinates.kind = "none"
           /\ t.place.kind = "none" \/ (t.place.kind = "dict" /\ t.place.geo.kind = "missing")}

\* what the geocoder may answer for a query
GeocoderCoords == {<<48, 2>>, <<40, -74>>}

GeocoderReplies ==
    [kind : {"found"}, coords : GeocoderCoords]
    \cup [kind : {"not_found", "error"}, coords : {<<0, 0>>}]

RECURSIVE SumSeq(_)
SumSeq(q) == IF q = <<>> THEN 0 ELSE Head(q) + SumSeq(Tail(q))

\* the model's places are chosen so that every mean is a whole number
Mean(q) == SumSeq(q) \div Len(q)

\* [f(x) for x in q if len(x) >= 2]
RECURSIVE Component(_, _)
Component(q, n) ==
    IF q = <<>> THEN <<>>
    ELSE IF Len(Head(q)) >= 2 THEN <<Head(q)[n]>> \o Component(Tail(q), n)
    ELSE Component(Tail(q), n)

\* GeoResolveBolt._compute_place_centroid: Some(<<lat, lon>>) or None
ComputePlaceCentroid(place) ==
    LET geo == place.geo
    IN  IF geo.kind = "null"
        THEN None      \* None.get raises AttributeError: except branch
        ELSE IF geo.bbox # None /\ Len(geo.bbox[1]) = 4
        THEN LET b == geo.bbox[1]
             IN  Some(<<Mean(<<b[2], b[4]>>), Mean(<<b[1], b[3]>>)>>)
        ELSE IF geo.depth = 0 \/ geo.data = <<>>
        THEN None
        ELSE IF geo.depth = 1
        THEN None      \* len(coord) of a number raises TypeError: except branch
        ELSE IF geo.depth = 2
        THEN None      \* coordinates[0] is a list, so the first pair is taken as the
                       \* ring; len(coord) of a number raises TypeError
        ELSE LET ring == geo.data[1]
                 lats == Component(ring, 2)
                 lons == Component(ring, 1)
             IN  IF Len(ring) > 0 /\ lats # <<>> /\ lons # <<>>
                 THEN Some(<<Mean(lats), Mean(lons)>>)
                 ELSE None

Unavailable ==
    [geo_lat |-> None, geo_lon |-> None, geo_confidence |-> "unavailable",
     geo_source |-> "unavailable"]

\* priority 1 deciding by truthiness: a latitude or longitude of 0 counts as missing
FromCoordinatesTruthy(coordinates) ==
    IF coordinates.kind = "dict" /\ coordinates.lat \notin {None, Some(0)}
       /\ coordinates.lon \notin {None, Some(0)}
    THEN Some([geo_lat |-> coordinates.lat, geo_lon |-> coordinates.lon,
               geo_confidence |-> "high", geo_source |-> "coordinates"])
    ELSE None

\* _resolve_geolocation, priority 1: the result, or None
FromCoordinates(coordinates) ==
    IF coordinates.kind = "dict" /\ coordinates.lat # None /\ coordinates.lon # None
    THEN Some([geo_lat |-> coordinates.lat, geo_lon |-> coordinates.lon,
               geo_confidence |-> "high", geo_source |-> "coordinates"])
    ELSE None

\* priority 2 without the test of the centroid: any place dict gives a result
FromPlaceUnchecked(place) ==
    IF place.kind = "dict"
    THEN LET c == ComputePlaceCentroid(place)
         IN  Some([geo_lat |-> IF c = None THEN None ELSE Some(c[1][1]),
                   geo_lon |-> IF c = None THEN None ELSE Some(c[1][2]),
                   geo_confidence |-> "medium", geo_source |-> "place_centroid",
                   place_name |-> IF place.full_name = None THEN "unknown"
                                  ELSE place.full_name[1]])
    ELSE None

\* _resolve_geolocation, priority 2: the result, or None
FromPlace(place) ==
    IF place.kind = "dict" /\ ComputePlaceCentroid(place) # None
    THEN LET c == ComputePlaceCentroid(place)[1]
         IN  Some([geo_lat |-> Some(c[1]), geo_lon |-> Some(c[2]),
                   geo_confidence |-> "medium", geo_source |-> "place_centroid",
                   place_name |-> IF place.full_name = None THEN "unknown"
                                  ELSE place.full_name[1]])
    ELSE None

\* _resolve_geolocation, priority 3: the guard of the geocoding branch
HasLocationString(user_location) ==
    user_location.kind = "str" /\ user_location.val # <<>> /\ Strip(user_location.val) # <<>>

\* _resolve_geolocation, priority 3: the result for what _geocode_location returned
FromGeocoded(geocoded, user_location) ==
    IF geocoded # None
    THEN [geo_lat |-> Some(geocoded[1][1]), geo_lon |-> Some(geocoded[1][2]),
          geo_confidence |-> "low", geo_source |-> "user_location_geocoded",
          user_location_string |-> user_location.val]
    ELSE Unavailable

\* redis get: the value of a key that is set and has not expired
RedisGet(store, key, t) ==
    IF store[key].set /\ t < store[key].expires THEN Some(store[key].value) ELSE None

\* redis setex(key, ttl, value)
RedisSetex(store, key, ttl, value, t) ==
    [store EXCEPT ![key] = [set |-> TRUE, value |-> value, expires |-> t + ttl]]

\* _resolve_geolocation up to the point where _geocode_location has looked into the
\* cache: either it returns (kind "done") or the geocoder has to be called ("geocode").
\* cacheOk: self.cache is set; cacheUp: Redis answers; cached: what self.cache.get returns
ResolveGeolocation(tup, geocoderOk, cacheOk, cacheUp, cached) ==
    LET r1 == FromCoordinates(tup.coordinates)
        r2 == FromPlace(tup.place)
        flags == [tried_place |-> FALSE, tried_location |-> FALSE, cache_hit |-> FALSE]
    IN  IF r1 # None
        THEN [kind |-> "done", result |-> r1[1], geocoded |-> None, flags |-> flags]
        ELSE IF r2 # None
        THEN [kind |-> "done", result |-> r2[1], geocoded |-> None,
              flags |-> [flags EXCEPT !.tried_place = TRUE]]
        ELSE LET f2 == [flags EXCEPT !.tried_place = tup.place.kind = "dict"]
                 f3 == [f2 EXCEPT !.tried_location = TRUE]
             IN  IF ~HasLocationString(tup.user_location)
                 THEN [kind |-> "done", result |-> Unavailable, geocoded |-> None,
                       flags |-> f2]
                 ELSE IF ~geocoderOk
                 THEN [kind |-> "done", result |-> Unavailable, geocoded |-> None,
                       flags |-> f3]
                 ELSE IF cacheOk /\ ~cacheUp
                 THEN \* self.cache.get raises: except Exception -> return None
                      [kind |-> "done", result |-> Unavailable, geocoded |-> None,
                       flags |-> f3]
                 ELSE IF cacheOk /\ cached # None
                 THEN [kind |-> "done",
                       result |-> FromGeocoded(Some(JsonLoads(cached[1])), tup.user_location),
                       geocoded |-> Some(JsonLoads(cached[1])),
                       flags |-> [f3 EXCEPT !.cache_hit = TRUE]]
                 ELSE [kind |-> "geocode", result |-> Unavailable, geocoded |-> None,
                       flags |-> f3]

\* the location as the cache is meant to key it: trimmed and lowercased
NormalizedLocation(user_location) == <<"geocode:">> \o Strip(Lower(user_location.val))

\* history: the coordinates an unexpired cached result for this location holds
Expected(tup) == RedisGet(fresh, NormalizedLocation(tup.user_location), now)

\* history: what the tuple carried
Given(tup) ==
    [lat |-> tup.coordinates.lat, lon |-> tup.coordinates.lon,
     place |-> tup.place.kind = "dict",
     centroid |-> IF tup.place.kind = "dict" THEN ComputePlaceCentroid(tup.place) ELSE None,
     location |-> tup.user_location]

\* self.geocoder.geocode(location_string) is sent by worker w
SendCall(w, tup) ==
    /\ last_call' = Some(now)
    /\ geo_last' = [NoResolution EXCEPT !.worker = w, !.given = Given(tup), !.called = TRUE,
                      !.gap = IF last_call = None THEN None ELSE Some(now - last_call[1])]

\* _resolve_geolocation returns result on worker w
GeoReturn(w, job, result, geocoded, flags, reply) ==
    /\ geo_last' = [NoResolution EXCEPT
                      !.worker = w, !.given = Given(job.tup), !.result = Some(result),
                      !.geocoded = geocoded,
                      !.reply = reply,
                      !.tried_place = flags.tried_place,
                      !.tried_location = flags.tried_location,
                      !.called = job.called, !.cache_hit = flags.cache_hit,
                      !.cache_read = job.cache_read, !.expect = job.expect]
    /\ geo_pc' = [geo_pc EXCEPT ![w] = "idle"]
    /\ geo_job' = [geo_job EXCEPT ![w] = NoJob]

\* GeoResolveBolt.process -> _resolve_geolocation(tweet_data) on worker w, up to its
\* return, its rate-limit sleep or its call of the geocoder
GeoResolve(w, tup, cacheUp) ==
    /\ geo_pc[w] = "idle"
    /\ LET location_string == Strip(tup.user_location.val)
           cached == IF cache_ok[w] /\ cacheUp
                     THEN RedisGet(redis, GeoCacheKey(location_string), now)
                     ELSE None
           r == ResolveGeolocation(tup, geocoder_ok, cache_ok[w], cacheUp, cached)
           time_since_last == now - last_geocode_time[w]
           job == [tup |-> tup, location_string |-> location_string, wake |-> 0,
                   called |-> FALSE, cache_read |-> cache_ok[w] /\ cacheUp,
                   expect |-> IF r.flags.tried_location /\ geocoder_ok
                              THEN Expected(tup) ELSE None]
       IN  IF r.kind = "done"
           THEN /\ GeoReturn(w, job, r.result, r.geocoded, r.flags, "none")
                /\ UNCHANGED last_call
           ELSE IF time_since_last < DelayTicks
           THEN \* time.sleep(self.GEOCODING_DELAY - time_since_last)
                /\ geo_pc' = [geo_pc EXCEPT ![w] = "sleep"]
                /\ geo_job' = [geo_job EXCEPT ![w] =
                                 [job EXCEPT !.wake = now + (DelayTicks - time_since_last)]]
                /\ geo_last' = NoResolution
                /\ UNCHANGED last_call
           ELSE /\ geo_pc' = [geo_pc EXCEPT ![w] = "call"]
                /\ geo_job' = [geo_job EXCEPT ![w] = [job EXCEPT !.called = TRUE]]
                /\ SendCall(w, tup)
    /\ UNCHANGED <<now, redis, geocoder_ok, cache_ok, last_geocode_time, fresh>>

\* time.sleep returns and the geocoder is called
GeoWake(w) ==
    /\ geo_pc[w] = "sleep"
    /\ now >= geo_job[w].wake
    /\ geo_pc' = [geo_pc EXCEPT ![w] = "call"]
    /\ geo_job' = [geo_job EXCEPT ![w].called = TRUE]
    /\ SendCall(w, geo_job[w].tup)
    /\ UNCHANGED <<now, redis, geocoder_ok, cache_ok, last_geocode_time, fresh>>

\* self.geocoder.geocode returns a location or None, or raises; the rest of
\* _geocode_location and of _resolve_geolocation.  cacheUp: self.cache.setex succeeds
GeoReply(w, reply, cacheUp) ==
    /\ geo_pc[w] = "call"
    /\ LET job == geo_job[w]
           flags == [tried_place |-> job.tup.place.kind = "dict", tried_location |-> TRUE,
                     cache_hit |-> FALSE]
           value == JsonDumps(reply.coords)
           stored == reply.kind = "found" /\ cache_ok[w] /\ cacheUp
           \* a raising setex is caught by except Exception: return None
           geocoded == IF reply.kind = "found" /\ (cache_ok[w] => cacheUp)
                       THEN Some(reply.coords) ELSE None
       IN  /\ last_geocode_time' =
                 IF reply.kind = "error" THEN last_geocode_time
                 ELSE [last_geocode_time EXCEPT ![w] = now]
           /\ redis' = IF stored
                       THEN RedisSetex(redis, GeoCacheKey(job.location_string), CacheTtlTicks,
                                       value, now)
                       ELSE redis
           /\ fresh' = IF stored
                       THEN RedisSetex(fresh, NormalizedLocation(job.tup.user_location),
                                       CacheTtlTicks, value, now)
                       ELSE fresh
           /\ GeoReturn(w, job, FromGeocoded(geocoded, job.tup.user_location), geocoded, flags,
                        reply.kind)
    /\ UNCHANGED <<now, geocoder_ok, cache_ok, last_call>>

\* one tick passes
Tick ==
    /\ (now - DelayTicks) % CacheTtlTicks < MaxTicks
    /\ now' = now + 1
    /\ geo_last' = NoResolution
    /\ UNCHANGED <<redis, geocoder_ok, cache_ok, last_geocode_time, geo_pc, geo_job,
                   last_call, fresh>>

\* CACHE_TTL passes, once
LongWait ==
    /\ now < CacheTtlTicks
    /\ now' = now + CacheTtlTicks
    /\ geo_last' = NoResolution
    /\ UNCHANGED <<redis, geocoder_ok, cache_ok, last_geocode_time, geo_pc, geo_job,
                   last_call, fresh>>

\* what the geocoder answers in the runs of one worker
TierReplies == {r \in GeocoderReplies : r.coords \in {<<0, 0>>, <<48, 2>>}}

\* GeoResolveBolt.initialize on every worker (the dedup stage does not move).  Redis
\* is reached by all workers, by none, or by all but the last one
GeoInit ==
    /\ LaterStart
    /\ GeoStart
    /\ geocoder_ok \in BOOLEAN
    /\ cache_ok \in {[w \in GeoWorkers |-> w <= n] : n \in {0, GeoPar - 1, GeoPar}}
    /\ added = <<>>
    /\ max_cache_size = [i \in DedupInstances |-> 1]
    /\ seen_tweet_ids = [i \in DedupInstances |-> <<>>]
    /\ seen_text_hashes = [i \in DedupInstances |-> <<>>]
    /\ last = NoCall
    /\ track = NoTrack

\* worker 1 alone: the other worker takes no step
TierInit == GeoInit /\ cache_ok[GeoPar] = cache_ok[1]

\* tuples that differ in the location only
LocationTuples ==
    {t \in GeoTuples : t.coordinates.kind = "none" /\ t.place.kind = "none"
                       /\ t.user_location.kind = "str"}

\* one worker, every kind of tuple
TiersNext ==
    \/ \E tup \in GeoTuples, cacheUp \in BOOLEAN :
          GeoResolve(1, tup, cacheUp) /\ UNCHANGED <<dedupVars, lruVars, laterVars>>
    \/ GeoWake(1) /\ UNCHANGED <<dedupVars, lruVars, laterVars>>
    \/ \E reply \in TierReplies, cacheUp \in BOOLEAN :
          GeoReply(1, reply, cacheUp) /\ UNCHANGED <<dedupVars, lruVars, laterVars>>
    \/ Tick /\ UNCHANGED <<dedupVars, lruVars, laterVars>>

\* the workers of the stage, interleaved
GeoNext ==
    \/ \E w \in GeoWorkers, tup \in LocationTuples, cacheUp \in BOOLEAN :
          GeoResolve(w, tup, cacheUp) /\ UNCHANGED <<dedupVars, lruVars, laterVars>>
    \/ \E w \in GeoWorkers : GeoWake(w) /\ UNCHANGED <<dedupVars, lruVars, laterVars>>
    \/ \E w \in GeoWorkers, reply \in GeocoderReplies, cacheUp \in BOOLEAN :
          GeoReply(w, reply, cacheUp) /\ UNCHANGED <<dedupVars, lruVars, laterVars>>
    \/ Tick /\ UNCHANGED <<dedupVars, lruVars, laterVars>>
    \/ LongWait /\ UNCHANGED <<dedupVars, lruVars, laterVars>>

\* the three tiers of the resolver, on one worker
SpecGeoTiers == TierInit /\ [][TiersNext]_vars

\* the geolocation stage of the topology
SpecGeo == GeoInit /\ [][GeoNext]_vars

(***************************************************************************)
(* LangDetectBolt.  Confidences are in thousandths; what a classifier      *)
(* reports before rounding is in tenths of a thousandth.  The counters     *)
(* fasttext_used, langdetect_fallback and twitter_fallback feed the log    *)
(* lines only and are left out.                                            *)
(***************************************************************************)
\* the dedup and geolocation stages as their initialize leaves them
EarlierStart ==
    /\ GeoStart
    /\ geocoder_ok = TRUE
    /\ cache_ok = [w \in GeoWorkers |-> TRUE]
    /\ added = <<>>
    /\ max_cache_size = [i \in DedupInstances |-> 1]
    /\ seen_tweet_ids = [i \in DedupInstances |-> <<>>]
    /\ seen_text_hashes = [i \in DedupInstances |-> <<>>]
    /\ last = NoCall
    /\ track = NoTrack

Rep(c, n) == [i \in 1..n |-> c]

\* tweet_data.get('text_clean', ''): texts whose trimmed length is 0, 9, 10 or 11
CleanTexts ==
    {<<>>, Rep("x", 9), <<" ">> \o Rep("x", 9) \o <<" ">>, Rep("x", 10),
     <<" ">> \o Rep("x", 10), Rep("x", 11)}

LangTweets ==
    [text_clean : [kind : {"str"}, val : CleanTexts]
                  \cup [kind : {"missing", "none"}, val : {<<>>}],
     lang : {None, Some("en")}]

\* self.model.predict: raises, or gives a label and a confidence
PrimaryReplies ==
    [kind : {"raise"}, lang : {"en"}, conf : {0}, up : {FALSE}]
    \cup [kind : {"ok"}, lang : {"fr"}, conf : {3000, 5000, 9876}, up : {FALSE}]
    \cup [kind : {"ok"}, lang : {"fr"}, conf : {4995}, up : BOOLEAN]

\* detect_langs: raises, gives an empty list, or a list with a top language
SecondaryReplies ==
    [kind : {"raise", "empty"}, lang : {"en"}, conf : {0}, up : {FALSE}]
    \cup [kind : {"ok"}, lang : {"es"}, conf : {2000, 9999}, up : {FALSE}]

\* LangDetectBolt.CONFIDENCE_THRESHOLD, in thousandths
CONFIDENCE_THRESHOLD == 500

\* a length test that does not trim the text
IsShortTextUntrimmed(text) == Len(text) < 10

\* len(text.strip()) < 10
IsShortText(text) == Len(Strip(text)) < 10

\* _detect_with_fasttext: the result, or None
DetectWithFasttext(reply) ==
    IF reply.kind = "ok"
    THEN Some([detected_lang |-> reply.lang,
               lang_confidence |-> RoundDiv(reply.conf, 10, reply.up),
               lang_method |-> "fasttext"])
    ELSE None

\* _detect_with_langdetect: the result, or None
DetectWithLangdetect(reply) ==
    IF reply.kind = "ok"
    THEN Some([detected_lang |-> reply.lang,
               lang_confidence |-> RoundDiv(reply.conf, 10, reply.up),
               lang_method |-> "langdetect"])
    ELSE None

\* the primary result is taken whatever its confidence
AcceptsAny(result) == result # None

\* result and result['lang_confidence'] >= self.CONFIDENCE_THRESHOLD
Accepts(result) == result # None /\ result[1].lang_confidence >= CONFIDENCE_THRESHOLD

\* _detect_language: the result (None when an exception was caught) and the
\* classifiers it invoked
DetectLanguageOf(tweet, loaded, available, primary, secondary) ==
    LET twitter_lang == IF tweet.lang = None THEN "unknown" ELSE tweet.lang[1]
        text == tweet.text_clean.val
        r1 == DetectWithFasttext(primary)
        r2 == DetectWithLangdetect(secondary)
        tried2 == ~(loaded /\ Accepts(r1)) /\ available
    IN  IF tweet.text_clean.kind = "none"
        THEN \* None.strip() raises AttributeError: except branch
             [result |-> None, primary_invoked |-> FALSE, secondary_invoked |-> FALSE]
        ELSE IF IsShortText(text)
        THEN [result |-> Some([detected_lang |-> twitter_lang, lang_confidence |-> 500,
                               lang_method |-> "twitter_short_text"]),
              primary_invoked |-> FALSE, secondary_invoked |-> FALSE]
        ELSE IF loaded /\ Accepts(r1)
        THEN [result |-> r1, primary_invoked |-> TRUE, secondary_invoked |-> FALSE]
        ELSE IF available /\ r2 # None
        THEN [result |-> r2, primary_invoked |-> loaded, secondary_invoked |-> TRUE]
        ELSE [result |-> Some([detected_lang |-> twitter_lang, lang_confidence |-> 300,
                               lang_method |-> "twitter_fallback"]),
              primary_invoked |-> loaded, secondary_invoked |-> tried2]

\* LangDetectBolt.process -> _detect_language(tweet_data); the replies are what the
\* classifiers would answer if invoked
DetectLanguage(tweet, primary, secondary) ==
    LET r == DetectLanguageOf(tweet, model_loaded, langdetect_available, primary, secondary)
    IN  /\ lang_last' = [called |-> TRUE, text |-> tweet.text_clean, lang |-> tweet.lang,
                         result |-> r.result,
                         primary_invoked |-> r.primary_invoked,
                         secondary_invoked |-> r.secondary_invoked,
                         primary |-> IF r.primary_invoked THEN Some(primary) ELSE None,
                         secondary |-> IF r.secondary_invoked THEN Some(secondary) ELSE None]
        /\ UNCHANGED <<model_loaded, langdetect_available>>

\* LangDetectBolt.initialize: the fastText model loads or not, langdetect is there or not
LangInit ==
    /\ EarlierStart
    /\ TopoStart
    /\ WeatherStart
    /\ NoaaStart
    /\ SentStart
    /\ model_loaded \in BOOLEAN
    /\ langdetect_available \in BOOLEAN
    /\ lang_last = NoDetection

LangNext ==
    \E tweet \in LangTweets, primary \in PrimaryReplies, secondary \in SecondaryReplies :
        DetectLanguage(tweet, primary, secondary)
        /\ UNCHANGED <<dedupVars, lruVars, geoVars, weatherVars, noaaVars, sentVars, topoVars>>

\* the language stage
SpecLang == LangInit /\ [][LangNext]_vars

(***************************************************************************)
(* NOAAEnrichBolt: the functions that turn observations into weather       *)
(* fields.  Temperatures, precipitation and wind speeds are in tenths (of  *)
(* a degree, a millimetre, a metre per second), times in minutes.          *)
(***************************************************************************)
\* the metrics dict: a key that is absent is None
NoMetrics ==
    [temperature_max_c |-> None, temperature_min_c |-> None, temperature_avg_c |-> None,
     precipitation_mm |-> None, wind_speed_ms |-> None, closest_observation_time |-> None]

\* metrics dicts around every threshold of the classification
ClassifiedMetrics ==
    {[NoMetrics EXCEPT !.temperature_max_c = t, !.precipitation_mm = p, !.wind_speed_ms = w] :
        t \in {None, Some(-1), Some(0), Some(49), Some(50), Some(300), Some(301), Some(350),
               Some(351)},
        p \in {None, Some(0), Some(1), Some(100), Some(101), Some(250), Some(251), Some(300)},
        w \in {None, Some(0), Some(100), Some(101), Some(200), Some(201)}}

\* metrics.get(key, 0)
GetOrZero(v) == IF v = None THEN 0 ELSE v[1]

\* a classification that looks at the wind before the precipitation
ClassifyWindFirst(metrics) ==
    LET precip == GetOrZero(metrics.precipitation_mm)
        wind == GetOrZero(metrics.wind_speed_ms)
    IN  IF wind > 200 THEN "high_wind"
        ELSE IF wind > 100 THEN "windy"
        ELSE IF precip > 250 THEN "heavy_rain"
        ELSE IF precip > 100 THEN "rain"
        ELSE IF precip > 0 THEN "light_rain"
        ELSE "normal"

\* NOAAEnrichBolt._classify_weather_event
ClassifyWeatherEvent(metrics) ==
    LET temp_max == metrics.temperature_max_c
        precip == GetOrZero(metrics.precipitation_mm)
        wind == GetOrZero(metrics.wind_speed_ms)
    IN  IF precip > 250 THEN "heavy_rain"
        ELSE IF precip > 100 THEN "rain"
        ELSE IF precip > 0 THEN "light_rain"
        ELSE IF wind > 200 THEN "high_wind"
        ELSE IF wind > 100 THEN "windy"
        ELSE IF temp_max # None /\ temp_max[1] > 350 THEN "extreme_heat"
        ELSE IF temp_max # None /\ temp_max[1] > 300 THEN "heat"
        ELSE IF temp_max # None /\ temp_max[1] < 0 THEN "freezing"
        ELSE IF temp_max # None /\ temp_max[1] < 50 THEN "cold"
        ELSE "normal"

\* an observation as _parse_observation builds it and _aggregate_observations reads
\* it; timestamp: kind "ok" (a time that can be compared with the tweet's),
\* "missing", or "bad" (fromisoformat or the subtraction raises)
Observation(kind, at, tmax, tmin, prcp, wind) ==
    [timestamp |-> [kind |-> kind, at |-> at], temperature_max_c |-> tmax,
     temperature_min_c |-> tmin, precipitation_mm |-> prcp, wind_speed_ms |-> wind]

\* the time of the tweet in the runs of _aggregate_observations
AggregateTime == 100

AggregatedObservations ==
    {Observation("ok", AggregateTime + 10, Some(201), Some(100), None, Some(51)),
     Observation("ok", AggregateTime - 10, Some(300), Some(-14), Some(12), None),
     Observation("missing", 0, Some(-20), None, Some(30), Some(60)),
     Observation("bad", 0, None, Some(155), None, Some(60)),
     Observation("ok", AggregateTime + 30, None, None, None, None)}

RECURSIVE SeqsUpTo(_, _)
SeqsUpTo(S, n) ==
    IF n = 0 THEN {<<>>}
    ELSE LET shorter == SeqsUpTo(S, n - 1)
         IN  shorter \cup {Append(q, x) : q \in shorter, x \in S}

ObservationLists == SeqsUpTo(AggregatedObservations, MaxObs)

\* [obs[key] for obs in observations if key in obs]
RECURSIVE Collect(_, _)
Collect(observations, key) ==
    IF observations = <<>> THEN <<>>
    ELSE (IF Head(observations)[key] # None THEN <<Head(observations)[key][1]>> ELSE <<>>)
         \o Collect(Tail(observations), key)

Abs(x) == IF x < 0 THEN -x ELSE x

RECURSIVE SeqMax(_)
SeqMax(q) ==
    IF Len(q) = 1 THEN Head(q)
    ELSE IF Head(q) >= SeqMax(Tail(q)) THEN Head(q) ELSE SeqMax(Tail(q))

RECURSIVE SeqMin(_)
SeqMin(q) ==
    IF Len(q) = 1 THEN Head(q)
    ELSE IF Head(q) <= SeqMin(Tail(q)) THEN Head(q) ELSE SeqMin(Tail(q))

\* a scan in which an observation as close as the closest so far replaces it
RECURSIVE ClosestLastWins(_, _, _, _)
ClosestLastWins(observations, tweet_time, closest_obs, min_time_diff) ==
    IF observations = <<>> THEN [closest_obs |-> closest_obs, min_time_diff |-> min_time_diff]
    ELSE LET obs == Head(observations)
             time_diff == Abs(obs.timestamp.at - tweet_time)
         IN  IF obs.timestamp.kind = "ok"
                /\ (min_time_diff = None \/ time_diff <= min_time_diff[1])
             THEN ClosestLastWins(Tail(observations), tweet_time, Some(obs), Some(time_diff))
             ELSE ClosestLastWins(Tail(observations), tweet_time, closest_obs, min_time_diff)

\* the loop of _aggregate_observations and of _compute_match_quality over the
\* timestamps: min_time_diff None stands for float('inf')
RECURSIVE Closest(_, _, _, _)
Closest(observations, tweet_time, closest_obs, min_time_diff) ==
    IF observations = <<>> THEN [closest_obs |-> closest_obs, min_time_diff |-> min_time_diff]
    ELSE LET obs == Head(observations)
             time_diff == Abs(obs.timestamp.at - tweet_time)
         IN  IF obs.timestamp.kind = "ok"
                /\ (min_time_diff = None \/ time_diff < min_time_diff[1])
             THEN Closest(Tail(observations), tweet_time, Some(obs), Some(time_diff))
             ELSE Closest(Tail(observations), tweet_time, closest_obs, min_time_diff)

\* NOAAEnrichBolt._aggregate_observations; up: where round() takes a tie
AggregateObservations(observations, tweet_time, up) ==
    LET temps_max == Collect(observations, "temperature_max_c")
        temps_min == Collect(observations, "temperature_min_c")
        precip == Collect(observations, "precipitation_mm")
        wind_speeds == Collect(observations, "wind_speed_ms")
        closest_obs == Closest(observations, tweet_time, None, None).closest_obs
    IN  [temperature_max_c |-> IF temps_max # <<>> THEN Some(SeqMax(temps_max)) ELSE None,
         temperature_min_c |-> IF temps_min # <<>> THEN Some(SeqMin(temps_min)) ELSE None,
         temperature_avg_c |->
             IF temps_max # <<>> /\ temps_min # <<>>
             THEN Some(RoundDiv(SeqMax(temps_max) + SeqMin(temps_min), 2, up))
             ELSE None,
         precipitation_mm |-> IF precip # <<>> THEN Some(SumSeq(precip)) ELSE None,
         wind_speed_ms |->
             IF wind_speeds # <<>>
             THEN Some(RoundDiv(SumSeq(wind_speeds), Len(wind_speeds), up))
             ELSE None,
         closest_observation_time |->
             IF closest_obs # None THEN Some(closest_obs[1].timestamp.at) ELSE None]

\* _aggregate_observations(observations, created_at) is applied
Aggregate(observations, up) ==
    weather_last' = [NoWeather EXCEPT
                       !.op = "aggregate", !.observations = observations,
                       !.tweet_time = AggregateTime,
                       !.result = AggregateObservations(observations, AggregateTime, up)]

\* _classify_weather_event(metrics) is applied
Classify(metrics) ==
    weather_last' = [NoWeather EXCEPT !.op = "classify", !.metrics = metrics,
                                      !.event_type = ClassifyWeatherEvent(metrics)]

\* nothing has been applied yet
WeatherInit ==
    /\ EarlierStart
    /\ TopoStart
    /\ LangStart
    /\ WeatherStart
    /\ NoaaStart
    /\ SentStart

WeatherNext ==
    \/ \E metrics \in ClassifiedMetrics :
          Classify(metrics) /\ UNCHANGED <<dedupVars, lruVars, geoVars, langVars, noaaVars, sentVars, topoVars>>
    \/ \E observations \in ObservationLists \ {<<>>}, up \in BOOLEAN :
          Aggregate(observations, up) /\ UNCHANGED <<dedupVars, lruVars, geoVars, langVars, noaaVars, sentVars, topoVars>>

\* the functions of NOAAEnrichBolt, each applied to inputs of its own
SpecWeather == WeatherInit /\ [][WeatherNext]_vars

(***************************************************************************)
(* NOAAEnrichBolt._enrich_with_noaa with its NOAAClient.  The record and   *)
(* the stations lie on one meridian, so the haversine distance is the      *)
(* difference of the latitudes times the length of a degree; distances are *)
(* in metres, distance_km in hundredths of a kilometre.  One call is three *)
(* steps at most: up to the stations request, from its answer up to the    *)
(* observations request, and from that answer to the return.               *)
(* skipped_no_geo, no_station, no_observations, enriched, request_count    *)
(* and last_request_time change no result and are left out.                *)
(***************************************************************************)
\* NOAAEnrichBolt.TIME_WINDOW_HOURS
TIME_WINDOW_HOURS == 1

MinutesPerDay == 1440

\* created_at of the records: noon of the eighth day
CreatedAt == 7 * MinutesPerDay + 720

\* the records that reach the bolt
EnrichTweets ==
    {[geo_confidence |-> gc, geo_lat |-> lat, geo_lon |-> lon,
      created_at |-> [kind |-> "datetime", at |-> CreatedAt]] :
        gc \in {None, Some("unavailable"), Some("high")},
        lat \in {None} \cup {Some(x) : x \in QueryLats},
        lon \in {None, Some(Longitude)}}
    \cup
    {[geo_confidence |-> Some("low"), geo_lat |-> Some(lat), geo_lon |-> Some(Longitude),
      created_at |-> [kind |-> k, at |-> CreatedAt]] :
        lat \in QueryLats, k \in {"str", "badstr", "none"}}

\* a station of the stations endpoint
StationAt(id, lat) == [id |-> id, latitude |-> lat, longitude |-> Some(Longitude)]

\* stations 0.67, 1.11, 9.99, 10.00, 29.99, 30.00, 49.93 and 50.04 km away from
\* PointA, and one without coordinates
ApiStations ==
    [N |-> StationAt("N", Some(PointA + 600)),
     S |-> StationAt("S", Some(PointA - 1000)),
     H |-> StationAt("H", Some(PointA + 8985)),
     T |-> StationAt("T", Some(PointA - 8993)),
     M |-> StationAt("M", Some(PointA + 26970)),
     L |-> StationAt("L", Some(PointA + 26980)),
     F |-> StationAt("F", Some(PointA + 44900)),
     O |-> StationAt("O", Some(PointA + 45000)),
     X |-> StationAt("X", None)]

\* what _make_request returns for the stations endpoint: None, or the results
StationReplies ==
    {[ok |-> FALSE, results |-> <<>>], [ok |-> TRUE, results |-> <<>>]}
    \cup {[ok |-> TRUE, results |-> <<ApiStations[n]>>] : n \in DOMAIN ApiStations}
    \cup {[ok |-> TRUE, results |-> <<ApiStations[a], ApiStations[b]>>] :
            <<a, b>> \in {<<"N", "S">>, <<"S", "N">>, <<"X", "M">>, <<"O", "F">>, <<"L", "T">>}}

\* NOAAClient._calculate_distance for two points of one meridian, in metres
CalculateDistance(lat1, lat2) == (Abs(lat1 - lat2) * 11119) \div 10000

\* round(distance, 2), in hundredths of a kilometre
Round2(distance) == RoundDiv(distance, 10, TRUE)

\* the loop of find_nearest_station over the stations of the answer
RECURSIVE ClosestStation(_, _, _, _, _)
ClosestStation(stations, lat, max_distance_km, closest_station, min_distance) ==
    IF stations = <<>> THEN closest_station
    ELSE LET station == Head(stations)
             distance == CalculateDistance(lat, station.latitude[1])
         IN  IF station.latitude = None \/ station.longitude = None
             THEN ClosestStation(Tail(stations), lat, max_distance_km, closest_station,
                                 min_distance)
             ELSE IF (min_distance = None \/ distance < min_distance[1])
                     /\ distance <= max_distance_km * 1000
             THEN ClosestStation(Tail(stations), lat, max_distance_km,
                                 Some([id |-> station.id, name |-> station.id,
                                       latitude |-> station.latitude[1],
                                       distance_km |-> Round2(distance)]),
                                 Some(distance))
             ELSE ClosestStation(Tail(stations), lat, max_distance_km, closest_station,
                                 min_distance)

\* a raw observation of the data endpoint; date: see Observation
RawObservation(kind, at, datatype, value) ==
    [date |-> [kind |-> kind, at |-> at], datatype |-> datatype, value |-> value]

ApiObservations ==
    [near |-> RawObservation("ok", CreatedAt - 29, "TMAX", Some(201)),
     half |-> RawObservation("ok", CreatedAt + 30, "TMIN", Some(100)),
     late |-> RawObservation("ok", CreatedAt + 59, "PRCP", Some(12)),
     edge |-> RawObservation("ok", CreatedAt - 60, "AWND", Some(51)),
     daily |-> RawObservation("ok", CreatedAt - 720, "TMAX", Some(300)),
     undated |-> RawObservation("missing", 0, "PRCP", Some(30)),
     naive |-> RawObservation("bad", 0, "TMIN", Some(-14)),
     empty |-> RawObservation("ok", CreatedAt, "TMAX", None),
     snow |-> RawObservation("ok", CreatedAt + 10, "SNOW", Some(5)),
     eve |-> RawObservation("ok", CreatedAt - MinutesPerDay, "TMAX", Some(400))]

\* start_time.strftime('%Y-%m-%d')
DateOf(at) == at \div MinutesPerDay

\* the data endpoint answers with observations dated startdate..enddate
InDates(raw, startdate, enddate) ==
    raw.date.kind = "ok" => DateOf(raw.date.at) \in startdate..enddate

\* what _make_request returns for the data endpoint: None, or the results
ObservationReplies(startdate, enddate) ==
    {[ok |-> FALSE, results |-> <<>>], [ok |-> TRUE, results |-> <<>>]}
    \cup {[ok |-> TRUE, results |-> <<ApiObservations[n]>>] :
            n \in {m \in DOMAIN ApiObservations :
                     InDates(ApiObservations[m], startdate, enddate)}}
    \cup {[ok |-> TRUE, results |-> <<ApiObservations[a], ApiObservations[b]>>] :
            <<a, b>> \in {p \in {<<"daily", "near">>, <<"near", "half">>, <<"empty", "late">>,
                                <<"undated", "naive">>, <<"edge", "daily">>,
                                <<"half", "snow">>, <<"eve", "near">>} :
                            /\ InDates(ApiObservations[p[1]], startdate, enddate)
                            /\ InDates(ApiObservations[p[2]], startdate, enddate)}}

\* NOAAClient._parse_observation: None for an observation without value
ParseObservation(obs) ==
    IF obs.value = None THEN None
    ELSE Some(Observation(obs.date.kind, obs.date.at,
                          IF obs.datatype = "TMAX" THEN obs.value ELSE None,
                          IF obs.datatype = "TMIN" THEN obs.value ELSE None,
                          IF obs.datatype = "PRCP" THEN obs.value ELSE None,
                          IF obs.datatype = "AWND" THEN obs.value ELSE None))

RECURSIVE ParseAll(_)
ParseAll(observations) ==
    IF observations = <<>> THEN <<>>
    ELSE ParseObservation(Head(observations)) \o ParseAll(Tail(observations))

\* query_observations once _make_request has returned
ParsedObservations(response) ==
    IF ~response.ok THEN None
    ELSE IF ParseAll(response.results) # <<>> THEN Some(ParseAll(response.results)) ELSE None

\* a match quality that lets the thresholds themselves pass
ComputeMatchQualityInclusive(observations, tweet_time, station_distance) ==
    LET min_time_diff_minutes == Closest(observations, tweet_time, None, None).min_time_diff
    IN  IF observations = <<>> THEN "no_observations"
        ELSE IF station_distance <= 10 * 100 /\ min_time_diff_minutes # None
                /\ min_time_diff_minutes[1] <= 30
        THEN "high"
        ELSE IF station_distance <= 30 * 100 /\ min_time_diff_minutes # None
                /\ min_time_diff_minutes[1] <= 60
        THEN "medium"
        ELSE "low"

\* NOAAEnrichBolt._compute_match_quality
ComputeMatchQuality(observations, tweet_time, station_distance) ==
    LET min_time_diff_minutes == Closest(observations, tweet_time, None, None).min_time_diff
    IN  IF observations = <<>> THEN "no_observations"
        ELSE IF station_distance < 10 * 100 /\ min_time_diff_minutes # None
                /\ min_time_diff_minutes[1] < 30
        THEN "high"
        ELSE IF station_distance < 30 * 100 /\ min_time_diff_minutes # None
                /\ min_time_diff_minutes[1] < 60
        THEN "medium"
        ELSE "low"

\* the weather fields of an emitted record
WeatherFields(station, metrics, event_type, match_quality) ==
    [weather_station_id |-> IF station = None THEN None ELSE Some(station[1].id),
     weather_station_name |-> IF station = None THEN None ELSE Some(station[1].name),
     weather_station_distance_km |->
         IF station = None THEN None ELSE Some(station[1].distance_km),
     weather_temp_c |-> metrics.temperature_avg_c,
     weather_temp_max_c |-> metrics.temperature_max_c,
     weather_temp_min_c |-> metrics.temperature_min_c,
     weather_precip_mm |-> metrics.precipitation_mm,
     weather_wind_speed_ms |-> metrics.wind_speed_ms,
     weather_event_type |-> event_type,
     weather_observation_time |-> metrics.closest_observation_time,
     noaa_match_quality |-> match_quality]

\* NOAAEnrichBolt._add_null_weather_fields
AddNullWeatherFields == WeatherFields(None, NoMetrics, None, "no_geolocation")

\* the first test of _enrich_with_noaa without the look at geo_confidence
HasGeolocationByCoordinates(tweet) == tweet.geo_lat # None /\ tweet.geo_lon # None

\* the first two tests of _enrich_with_noaa
HasGeolocation(tweet) ==
    /\ tweet.geo_confidence # None
    /\ tweet.geo_confidence # Some("unavailable")
    /\ tweet.geo_lat # None
    /\ tweet.geo_lon # None

\* _enrich_with_noaa returns: None, or the weather fields added to the record
EnrichReturn(job, looked_up, queried, observations, result) ==
    /\ noaa_pc' = "idle"
    /\ noaa_job' = NoEnrichJob
    /\ noaa_last' = [returned |-> TRUE, tweet |-> job.tweet, looked_up |-> looked_up,
                     queried |-> queried, station |-> job.station,
                     from_cache |-> job.from_cache, stations |-> job.stations,
                     requested |-> job.requested,
                     observations |-> observations, result |-> result]

\* _enrich_with_noaa from the return of find_nearest_station on
AfterStation(job) ==
    IF job.station = None
    THEN EnrichReturn(job, TRUE, FALSE, None, Some(AddNullWeatherFields))
    ELSE IF job.tweet.created_at.kind = "badstr"
    THEN EnrichReturn(job, TRUE, FALSE, None, None)
    ELSE IF job.tweet.created_at.kind = "none"
    THEN EnrichReturn(job, TRUE, FALSE, None, Some(AddNullWeatherFields))
    ELSE IF ~api_token
    THEN EnrichReturn(job, TRUE, TRUE, None,
                      Some(WeatherFields(job.station, NoMetrics, None, "no_observations")))
    ELSE /\ noaa_pc' = "observations"
         /\ noaa_job' = job
         /\ noaa_last' = NoEnrichment

\* _enrich_with_noaa(tweet_data) up to its first request or its return;
\* cacheUp: the cache answers the get
EnrichWithNoaa(tweet, cacheUp) ==
    LET cache_key == StationCacheKey(tweet.geo_lat[1], tweet.geo_lon[1],
                                     MAX_STATION_DISTANCE_KM)
        job == [NoEnrichJob EXCEPT !.tweet = tweet]
    IN  /\ noaa_pc = "idle"
        /\ UNCHANGED <<api_token, noaa_cache_ok, station_cache>>
        /\ IF ~HasGeolocation(tweet)
           THEN EnrichReturn(job, FALSE, FALSE, None, Some(AddNullWeatherFields))
           ELSE IF noaa_cache_ok /\ ~cacheUp
           THEN EnrichReturn(job, TRUE, FALSE, None, None)
           ELSE IF noaa_cache_ok /\ station_cache[cache_key] # None
           THEN AfterStation([job EXCEPT !.station = station_cache[cache_key],
                                         !.from_cache = TRUE])
           ELSE IF ~api_token
           THEN AfterStation(job)
           ELSE /\ noaa_pc' = "station"
                /\ noaa_job' = [job EXCEPT !.requested = TRUE]
                /\ noaa_last' = NoEnrichment

\* the stations endpoint has answered; cacheUp: the cache takes the setex
StationsReply(response, cacheUp) ==
    LET tweet == noaa_job.tweet
        cache_key == StationCacheKey(tweet.geo_lat[1], tweet.geo_lon[1],
                                     MAX_STATION_DISTANCE_KM)
        closest_station ==
            IF ~response.ok THEN None
            ELSE ClosestStation(response.results, tweet.geo_lat[1],
                                MAX_STATION_DISTANCE_KM, None, None)
        stored == closest_station # None /\ noaa_cache_ok /\ cacheUp
        station == IF closest_station # None /\ noaa_cache_ok /\ ~cacheUp
                   THEN None ELSE closest_station
    IN  /\ noaa_pc = "station"
        /\ UNCHANGED <<api_token, noaa_cache_ok>>
        /\ station_cache' = IF stored
                            THEN [station_cache EXCEPT ![cache_key] = closest_station]
                            ELSE station_cache
        /\ AfterStation([noaa_job EXCEPT
                           !.station = station,
                           !.stations = IF response.ok THEN Some(response.results) ELSE None])

\* the data endpoint has answered; up: where round() takes a tie
ObservationsReply(response, up) ==
    LET tweet_time == noaa_job.tweet.created_at.at
        observations == ParsedObservations(response)
        weather_metrics == AggregateObservations(observations[1], tweet_time, up)
    IN  /\ noaa_pc = "observations"
        /\ UNCHANGED <<api_token, noaa_cache_ok, station_cache>>
        /\ IF observations = None
           THEN EnrichReturn(noaa_job, TRUE, TRUE, None,
                             Some(WeatherFields(noaa_job.station, NoMetrics, None,
                                                "no_observations")))
           ELSE EnrichReturn(noaa_job, TRUE, TRUE, observations,
                             Some(WeatherFields(
                                      noaa_job.station, weather_metrics,
                                      Some(ClassifyWeatherEvent(weather_metrics)),
                                      ComputeMatchQuality(observations[1], tweet_time,
                                          noaa_job.station[1].distance_km))))

\* STATION_CACHE_TTL has passed since a station was cached
StationExpires(cache_key) ==
    /\ station_cache[cache_key] # None
    /\ station_cache' = [station_cache EXCEPT ![cache_key] = None]
    /\ noaa_last' = NoEnrichment
    /\ UNCHANGED <<api_token, noaa_cache_ok, noaa_pc, noaa_job>>

\* a bolt whose client may or may not have a token and a cache
NoaaInit ==
    /\ EarlierStart
    /\ TopoStart
    /\ LangStart
    /\ WeatherStart
    /\ SentStart
    /\ api_token \in BOOLEAN
    /\ noaa_cache_ok \in BOOLEAN
    /\ station_cache = [k \in StationCacheKeys |-> None]
    /\ noaa_pc = "idle"
    /\ noaa_job = NoEnrichJob
    /\ noaa_last = NoEnrichment

\* the window of the observations request, as dates
StartDate == DateOf(noaa_job.tweet.created_at.at - 60 * TIME_WINDOW_HOURS)
EndDate == DateOf(noaa_job.tweet.created_at.at + 60 * TIME_WINDOW_HOURS)

NoaaNext ==
    \/ \E tweet \in EnrichTweets, cacheUp \in BOOLEAN :
          EnrichWithNoaa(tweet, cacheUp)
          /\ UNCHANGED <<dedupVars, lruVars, geoVars, langVars, weatherVars, sentVars, topoVars>>
    \/ \E response \in StationReplies, cacheUp \in BOOLEAN :
          StationsReply(response, cacheUp)
          /\ UNCHANGED <<dedupVars, lruVars, geoVars, langVars, weatherVars, sentVars, topoVars>>
    \/ /\ noaa_pc = "observations"
       /\ \E response \in ObservationReplies(StartDate, EndDate), up \in BOOLEAN :
             ObservationsReply(response, up)
          /\ UNCHANGED <<dedupVars, lruVars, geoVars, langVars, weatherVars, sentVars, topoVars>>
    \/ \E cache_key \in StationCacheKeys :
          StationExpires(cache_key)
          /\ UNCHANGED <<dedupVars, lruVars, geoVars, langVars, weatherVars, sentVars, topoVars>>

\* the weather stage: one NOAAEnrichBolt with its client and the station cache
SpecNoaa == NoaaInit /\ [][NoaaNext]_vars

(***************************************************************************)
(* SentimentModel.compute_sentiment.  Scores and confidences of the models *)
(* are in ten-thousandths, the emoji score and the returned (rounded)      *)
(* score and confidence in thousandths.  One call is three steps at most:  *)
(* up to the call of the routed model, from its answer to the call of the  *)
(* lexicon scorer or to the return, and from that answer to the return.    *)
(* The text only reaches the models (cut to 512 characters for the         *)
(* transformers) and is left out.                                          *)
(***************************************************************************)
\* SentimentModel.POSITIVE_THRESHOLD and NEGATIVE_THRESHOLD, in ten-thousandths
POSITIVE_THRESHOLD == 3000
NEGATIVE_THRESHOLD == -3000

Languages == {"en", "es"}

\* emoji_sentiment_score, in thousandths
EmojiScores == {-1000, 0, 20, 1000, 1500, 5000}

\* what model(text)[0] gives: it raises, or a label and a score
TransformerReplies ==
    {[ok |-> FALSE, label |-> NoneV, score |-> 0]}
    \cup [ok : {TRUE}, label : {"positive", "NEG", "neutral"},
          score : {1000, 2996, 3000, 3004, 5555, 9000, 10000}]

\* what self.vader.polarity_scores(text) gives: it raises, or the compound score
VaderReplies ==
    {[ok |-> FALSE, compound |-> 0]}
    \cup [ok : {TRUE}, compound : {-10000, -2995, 0, 3000, 8004}]

\* result['label'].upper()
Upper(label) ==
    CASE label = "positive" -> "POSITIVE"
      [] label = "neutral" -> "NEUTRAL"
      [] OTHER -> label

\* _compute_with_transformer when the model answers
TransformerResult(reply, method_name) ==
    LET label == Upper(reply.label)
        confidence == reply.score
    IN  [sentiment_score |-> IF label = "POSITIVE" \/ label = "POS" THEN confidence
                             ELSE IF label = "NEGATIVE" \/ label = "NEG" THEN -confidence
                             ELSE 0,
         sentiment_method |-> method_name,
         confidence |-> confidence]

\* a lexicon scorer whose answer is not looked at
VaderResultNeutral(reply) ==
    [sentiment_score |-> 0, sentiment_method |-> "vader_fallback", confidence |-> 0]

\* _compute_with_vader when the scorer answers
VaderResult(reply) ==
    [sentiment_score |-> reply.compound, sentiment_method |-> "vader_fallback",
     confidence |-> Abs(reply.compound)]

Max(a, b) == IF a >= b THEN a ELSE b
Min(a, b) == IF a <= b THEN a ELSE b

\* an adjustment that is not clamped
EmojiAdjustmentUnclamped(emoji_sentiment_score) == emoji_sentiment_score * 2

\* max(-0.2, min(0.2, emoji_sentiment_score * 0.2)), in ten-thousandths
EmojiAdjustment(emoji_sentiment_score) == Max(-2000, Min(2000, emoji_sentiment_score * 2))

\* compute_sentiment from the emoji adjustment on; up: where round() takes a tie;
\* over: on which side of a threshold a float sum that equals it falls
Fuse(result, emoji_sentiment_score, up, over) ==
    LET adjusted_score ==
            Max(-10000, Min(10000, result.sentiment_score
                                     + EmojiAdjustment(emoji_sentiment_score)))
        label ==
            IF adjusted_score > POSITIVE_THRESHOLD
               \/ (adjusted_score = POSITIVE_THRESHOLD /\ emoji_sentiment_score # 0 /\ over)
            THEN "positive"
            ELSE IF adjusted_score < NEGATIVE_THRESHOLD
                    \/ (adjusted_score = NEGATIVE_THRESHOLD /\ emoji_sentiment_score # 0 /\ over)
            THEN "negative"
            ELSE "neutral"
    IN  [sentiment_score |-> RoundDiv(adjusted_score, 10, up),
         sentiment_label |-> label,
         sentiment_method |-> result.sentiment_method,
         sentiment_confidence |-> RoundDiv(result.confidence, 10, up)]

\* the dict returned without any scorer, and after an exception
Default(method) ==
    [sentiment_score |-> 0, sentiment_label |-> "neutral", sentiment_method |-> method,
     sentiment_confidence |-> 0]

\* compute_sentiment returns
SentimentReturn(job, lexicon, result) ==
    /\ sent_pc' = "idle"
    /\ sent_job' = NoSentimentJob
    /\ sent_last' = [returned |-> TRUE, language |-> job.language,
                     emoji_sentiment_score |-> job.emoji_sentiment_score,
                     method_name |-> job.method_name, reply |-> job.reply,
                     lexicon |-> lexicon, result |-> result]

\* compute_sentiment(text, language, emoji_sentiment_score) up to the call of a
\* scorer, or to its return when there is none
ComputeSentiment(language, emoji_sentiment_score) ==
    LET job == [NoSentimentJob EXCEPT !.language = language,
                                      !.emoji_sentiment_score = emoji_sentiment_score]
    IN  /\ sent_pc = "idle"
        /\ UNCHANGED <<model_en, model_multilingual, vader>>
        /\ IF language = "en" /\ model_en
           THEN /\ sent_pc' = "transformer"
                /\ sent_job' = [job EXCEPT !.method_name = Some("roberta_en")]
                /\ sent_last' = NoSentiment
           ELSE IF model_multilingual
           THEN /\ sent_pc' = "transformer"
                /\ sent_job' = [job EXCEPT !.method_name = Some("xlm_roberta")]
                /\ sent_last' = NoSentiment
           ELSE IF vader
           THEN /\ sent_pc' = "vader"
                /\ sent_job' = job
                /\ sent_last' = NoSentiment
           ELSE SentimentReturn(job, None, Default("unavailable"))

\* the transformer has answered or raised
TransformerReply(reply, up, over) ==
    /\ sent_pc = "transformer"
    /\ UNCHANGED <<model_en, model_multilingual, vader>>
    /\ IF reply.ok
       THEN SentimentReturn([sent_job EXCEPT !.reply = Some(reply)], None,
                            Fuse(TransformerResult(reply, sent_job.method_name[1]),
                                 sent_job.emoji_sentiment_score, up, over))
       ELSE IF vader
       THEN /\ sent_pc' = "vader"
            /\ sent_job' = [sent_job EXCEPT !.reply = Some(reply)]
            /\ sent_last' = NoSentiment
       ELSE SentimentReturn([sent_job EXCEPT !.reply = Some(reply)], None, Default("error"))

\* the lexicon scorer has answered or raised
VaderReply(reply, up, over) ==
    /\ sent_pc = "vader"
    /\ UNCHANGED <<model_en, model_multilingual, vader>>
    /\ IF reply.ok
       THEN SentimentReturn(sent_job, Some(reply),
                            Fuse(VaderResult(reply), sent_job.emoji_sentiment_score, up, over))
       ELSE SentimentReturn(sent_job, Some(reply), Default("error"))

\* a SentimentModel with any of its three scorers loaded or not
SentInit ==
    /\ EarlierStart
    /\ TopoStart
    /\ LangStart
    /\ WeatherStart
    /\ NoaaStart
    /\ model_en \in BOOLEAN
    /\ model_multilingual \in BOOLEAN
    /\ vader \in BOOLEAN
    /\ sent_pc = "idle"
    /\ sent_job = NoSentimentJob
    /\ sent_last = NoSentiment

SentNext ==
    \/ \E language \in Languages, emoji_sentiment_score \in EmojiScores :
          ComputeSentiment(language, emoji_sentiment_score)
          /\ UNCHANGED <<dedupVars, lruVars, geoVars, langVars, weatherVars, noaaVars, topoVars>>
    \/ \E reply \in TransformerReplies, up \in BOOLEAN, over \in BOOLEAN :
          TransformerReply(reply, up, over)
          /\ UNCHANGED <<dedupVars, lruVars, geoVars, langVars, weatherVars, noaaVars, topoVars>>
    \/ \E reply \in VaderReplies, up \in BOOLEAN, over \in BOOLEAN :
          VaderReply(reply, up, over)
          /\ UNCHANGED <<dedupVars, lruVars, geoVars, langVars, weatherVars, noaaVars, topoVars>>

\* the sentiment model on its own
SpecSent == SentInit /\ [][SentNext]_vars

stageVars == <<dedupVars, lruVars, geoVars, langVars, weatherVars, noaaVars, sentVars>>

StagesStart == EarlierStart /\ LangStart /\ WeatherStart /\ NoaaStart /\ SentStart

(***************************************************************************)
(* CleanBolt.  The text is kept as the sequence of the transformations     *)
(* whose effect it carries; a tuple comes with the set of library calls    *)
(* that raise when they are made on it.                                    *)
(***************************************************************************)
MaxTuples == 3

\* the transformations of _clean_tweet, in the order it applies them
Transforms == <<"normalize", "emojis", "hashtags", "urls", "contractions", "whitespace",
                "features">>

TransformSet == {Transforms[i] : i \in DOMAIN Transforms}

\* _expand_contractions: the text after it; an exception of contractions.fix is caught here
ExpandContractions(text, throws) ==
    IF ~contractions_available THEN Some(text)
    ELSE IF "contractions" \in throws THEN Some(text)
    ELSE Some(Append(text, "contractions"))

\* _process_emojis: without the emoji library the text is returned as it is
ProcessEmojis(text, throws) ==
    IF ~emoji_available THEN Some(text)
    ELSE IF "emojis" \in throws THEN None
    ELSE Some(Append(text, "emojis"))

\* one step of _clean_tweet: the text after it, or None when the step raises
ApplyTransform(t, text, throws) ==
    CASE t = "emojis" -> ProcessEmojis(text, throws)
      [] t = "contractions" -> ExpandContractions(text, throws)
      [] t = "features" -> IF t \in throws THEN None ELSE Some(text)
      [] OTHER -> IF t \in throws THEN None ELSE Some(Append(text, t))

RECURSIVE CleanFrom(_, _, _)
CleanFrom(i, text, throws) ==
    IF i > Len(Transforms)
    THEN Some([text_clean |-> text, processing_stage |-> "cleaned"])
    ELSE LET r == ApplyTransform(Transforms[i], text, throws)
         IN  IF r = None THEN None ELSE CleanFrom(i + 1, r[1], throws)

\* CleanBolt._clean_tweet: the cleaned record, or None when a step raised
CleanTweet(throws) == CleanFrom(1, <<>>, throws)

\* is the library call of transformation t made at all
Invoked(t) ==
    /\ t = "emojis" => emoji_available
    /\ t = "contractions" => contractions_available

\* the calls that raised during _clean_tweet: every call up to the first one whose
\* exception leaves _clean_tweet
RECURSIVE ThrewFrom(_, _)
ThrewFrom(i, throws) ==
    IF i > Len(Transforms) THEN {}
    ELSE LET t == Transforms[i]
             raised == t \in throws /\ Invoked(t)
         IN  IF raised /\ ApplyTransform(t, <<>>, throws) = None THEN {t}
             ELSE (IF raised THEN {t} ELSE {}) \cup ThrewFrom(i + 1, throws)

\* CleanBolt.process
CleanProcess(throws) ==
    LET cleaned_data == CleanTweet(throws)
    IN  /\ clean_processed + clean_failed < MaxTuples
        /\ IF cleaned_data = None
           THEN /\ clean_failed' = clean_failed + 1
                /\ UNCHANGED clean_processed
           ELSE /\ clean_processed' = clean_processed + 1
                /\ UNCHANGED clean_failed
        /\ clean_last' = [called |-> TRUE, throws |-> throws, threw |-> ThrewFrom(1, throws),
                          emitted |-> cleaned_data, failed |-> cleaned_data = None]
        /\ UNCHANGED <<emoji_available, contractions_available>>

\* CleanBolt.initialize: either optional library is installed or not
CleanInit ==
    /\ StagesStart /\ ClientStart
    /\ emoji_available \in BOOLEAN
    /\ contractions_available \in BOOLEAN
    /\ clean_processed = 0
    /\ clean_failed = 0
    /\ clean_last = NoCleaning
    /\ ParseStart
    /\ SpoutStart
    /\ PipeStart

CleanNext ==
    \E throws \in SUBSET TransformSet :
        CleanProcess(throws) /\ UNCHANGED <<clientVars, stageVars, parseVars, spoutVars, pipeVars>>

\* the cleaning stage
SpecClean == CleanInit /\ [][CleanNext]_vars

(***************************************************************************)
(* ParseBolt.  A field of the incoming dict is absent (Missing), null      *)
(* (Null) or one of a few values.                                          *)
(***************************************************************************)
Missing == "missing"
Null == "null"

\* values of created_at: three ISO 8601 timestamps and three strings that are none
Timestamps == {"2024-01-15T14:30:00.000Z", "2024-01-15T14:30:00.000+00:00",
               "2024-01-15T14:30:00.000+0000", "yesterday", "Z", ""}

\* values of text: a text, the empty text and a text of spaces, or no text
RawTexts == [kind : {"str"}, val : {<<"a">>, <<>>, <<" ", " ">>}]
            \cup [kind : {"none", "missing"}, val : {<<>>}]

\* the tweet of tests/test_core_bolts.py
ValidTweet == [dict |-> TRUE, tweet_id |-> "123", text |-> [kind |-> "str", val |-> <<"a">>],
               created_at |-> "2024-01-15T14:30:00.000Z", retweet_count |-> Missing,
               entities |-> Missing]

RawFields == {"tweet_id", "text", "created_at", "retweet_count", "entities"}

\* the dicts a tuple can carry: the valid tweet with up to two fields changed; and a
\* tuple that carries no dict
RawTweets ==
    {t \in [dict : {TRUE},
            tweet_id : {Missing, Null, "123"},
            text : RawTexts,
            created_at : {Missing, Null} \cup Timestamps,
            retweet_count : {Missing, Null, "7", "many"},
            entities : {Missing, Null, "dict"}] :
        Cardinality({f \in RawFields : t[f] # ValidTweet[f]}) <= 2}
    \cup
    [dict : {FALSE}, tweet_id : {Missing}, text : [kind : {"missing"}, val : {<<>>}],
     created_at : {Missing}, retweet_count : {Missing}, entities : {Missing}]

\* field in tweet_data and tweet_data[field] is not None
Present(tweet_data, field) ==
    IF field = "text" THEN tweet_data.text.kind = "str"
    ELSE tweet_data[field] \notin {Missing, Null}

\* _validate_required_fields without the test of the stripped text
ValidateRequiredFieldsUnstripped(tweet_data) ==
    \A field \in {"tweet_id", "text", "created_at"} : Present(tweet_data, field)

\* ParseBolt._validate_required_fields
ValidateRequiredFields(tweet_data) ==
    /\ \A field \in {"tweet_id", "text", "created_at"} : Present(tweet_data, field)
    /\ Strip(tweet_data.text.val) # <<>>

\* datetime.fromisoformat: the datetime, or None when it raises; the form without a
\* colon in the offset is read by newer interpreters only
FromIsoformat(timestamp_str, newer) ==
    IF timestamp_str = "2024-01-15T14:30:00.000+00:00" THEN Some("2024-01-15 14:30 UTC")
    ELSE IF timestamp_str = "2024-01-15T14:30:00.000+0000" /\ newer
         THEN Some("2024-01-15 14:30 UTC")
    ELSE None

\* datetime.strptime with '%Y-%m-%dT%H:%M:%S.%f%z'
Strptime(timestamp_str) ==
    IF timestamp_str \in {"2024-01-15T14:30:00.000+00:00", "2024-01-15T14:30:00.000+0000"}
    THEN Some("2024-01-15 14:30 UTC")
    ELSE None

\* ParseBolt._parse_timestamp
ParseTimestamp(timestamp_str, newer) ==
    LET replaced == IF timestamp_str = "2024-01-15T14:30:00.000Z"
                    THEN "2024-01-15T14:30:00.000+00:00"
                    ELSE IF timestamp_str = "Z" THEN "+00:00"
                    ELSE timestamp_str
    IN  IF FromIsoformat(replaced, newer) # None THEN FromIsoformat(replaced, newer)
        ELSE Strptime(replaced)

\* ParseBolt._parse_tweet: the parsed record, or None; an entities value that is no dict
\* and a retweet_count that int() does not take raise into its except
ParseTweet(tweet_data, newer) ==
    LET created_at == ParseTimestamp(tweet_data.created_at, newer)
    IN  IF created_at = None THEN None
        ELSE IF tweet_data.entities = Null THEN None
        ELSE IF tweet_data.retweet_count \in {Null, "many"} THEN None
        ELSE Some([tweet_id |-> tweet_data.tweet_id, created_at |-> created_at[1],
                   text |-> tweet_data.text.val, processing_stage |-> "parsed"])

\* ParseBolt.process
ParseProcess(tweet_data, newer) ==
    LET accepted == tweet_data.dict /\ ValidateRequiredFields(tweet_data)
        parsed_data == IF accepted THEN ParseTweet(tweet_data, newer) ELSE None
    IN  /\ parse_processed + parse_failed < MaxTuples
        /\ IF parsed_data = None
           THEN /\ parse_failed' = parse_failed + 1
                /\ UNCHANGED parse_processed
           ELSE /\ parse_processed' = parse_processed + 1
                /\ UNCHANGED parse_failed
        /\ parse_last' = [called |-> TRUE, tweet_data |-> tweet_data, emitted |-> parsed_data,
                          failed |-> parsed_data = None, acked |-> parsed_data # None,
                          counted |-> IF parsed_data = None THEN 1 ELSE 0]

ParseInit == StagesStart /\ ClientStart /\ CleanStart /\ ParseStart /\ SpoutStart /\ PipeStart

ParseNext ==
    \E tweet_data \in RawTweets, newer \in BOOLEAN :
        ParseProcess(tweet_data, newer) /\ UNCHANGED <<clientVars, stageVars, cleanVars, spoutVars, pipeVars>>

\* the parsing stage
SpecParse == ParseInit /\ [][ParseNext]_vars

(***************************************************************************)
(* TwitterSpout.  Time is counted in ticks of one poll interval (30 s), so *)
(* the backoff constants of 60 s and 300 s are 2 and 10 ticks.  Storm      *)
(* calls next_tuple over and over, and ack or fail once for a tuple id it  *)
(* tracks.  The counters total_emitted and api_calls only feed the log.    *)
(***************************************************************************)
MaxClock == 4
MaxTweetId == 3
MaxHits == 2
PollInterval == 1
INITIAL_BACKOFF_SECONDS == 2
MAX_BACKOFF_SECONDS == 10

\* a tweet of the API or the file; _create_tuple raises on one whose geo is malformed
Tweet(id, wellformed) == [id |-> id, wellformed |-> wellformed]

\* the contents the local file can have
LocalFiles == {<<Tweet(1, TRUE)>>, <<Tweet(1, TRUE), Tweet(2, FALSE)>>,
               <<Tweet(2, TRUE), Tweet(1, TRUE)>>, <<>>}

RECURSIVE Descending(_, _)
\* the sequences of tweets with ids in lo..hi, newest first
Descending(lo, hi) ==
    IF hi < lo THEN {<<>>}
    ELSE Descending(lo, hi - 1)
         \cup {<<Tweet(hi, TRUE)>> \o rest : rest \in Descending(lo, hi - 1)}

\* /tweets/search/recent: the tweets newer than since_id, newest first
SearchRecent(since_id) ==
    Descending(IF since_id = None THEN 1 ELSE since_id[1] + 1, MaxTweetId)

\* requests.get raised (a timeout, a connection error)
RequestRaised == 0

\* the answers of requests.get: a status with data, or an exception
ApiReplies(since_id) ==
    [status : {200}, data : SearchRecent(since_id), reset : {None}]
    \cup [status : {429}, data : {<<>>},
          reset : {None, Some(spout_now), Some(spout_now + 3),
                   Some(spout_now + MAX_BACKOFF_SECONDS + 1)}]
    \cup [status : {401, 500, RequestRaised}, data : {<<>>}, reset : {None}]

RECURSIVE Pow2(_)
Pow2(n) == IF n = 0 THEN 1 ELSE 2 * Pow2(n - 1)

\* TwitterSpout._create_tuple
CreateTuple(tweet) == IF tweet.wellformed THEN Some([tweet_id |-> tweet.id]) ELSE None

\* TwitterSpout._load_local_file
LoadLocalFile ==
    IF local_file = None
    THEN tweet_buffer' = <<>> /\ UNCHANGED buffer_index
    ELSE tweet_buffer' = local_file[1] /\ buffer_index' = 0

\* TwitterSpout._handle_rate_limit
HandleRateLimit(response) ==
    /\ rate_limit_hits' = rate_limit_hits + 1
    /\ backoff_seconds' =
           IF response.reset # None
           THEN Max(response.reset[1] - spout_now, INITIAL_BACKOFF_SECONDS)
           ELSE Min(INITIAL_BACKOFF_SECONDS * Pow2(rate_limit_hits), MAX_BACKOFF_SECONDS)

\* TwitterSpout._apply_backoff, entered with the backoff period b
ApplyBackoff(b) ==
    backoff_seconds' = IF b = 0 THEN INITIAL_BACKOFF_SECONDS
                       ELSE Min(b * 2, MAX_BACKOFF_SECONDS)

\* the history of a call of next_tuple that polled; request is the answer of the
\* API when a request was sent
Polled(request) == [NoEmission EXCEPT !.polled = TRUE, !.request = request]

\* TwitterSpout._poll_twitter_api, entered with the backoff period b
PollTwitterApi(response, b) ==
    IF ~bearer_token
    THEN /\ use_local_file' = TRUE
         /\ LoadLocalFile
         /\ backoff_seconds' = b
         /\ spout_last' = Polled(None)
         /\ UNCHANGED <<last_tweet_id, rate_limit_hits>>
    ELSE /\ spout_last' = Polled(Some(response.status))
         /\ CASE response.status = 429 ->
                     /\ HandleRateLimit(response)
                     /\ UNCHANGED <<use_local_file, tweet_buffer, buffer_index, last_tweet_id>>
              [] response.status = 401 ->
                     /\ use_local_file' = TRUE
                     /\ LoadLocalFile
                     /\ backoff_seconds' = b
                     /\ UNCHANGED <<last_tweet_id, rate_limit_hits>>
              [] response.status = 200 /\ response.data = <<>> ->
                     /\ backoff_seconds' = b
                     /\ UNCHANGED <<use_local_file, tweet_buffer, buffer_index, last_tweet_id,
                                    rate_limit_hits>>
              [] response.status = 200 /\ response.data # <<>> ->
                     /\ tweet_buffer' = response.data
                     /\ buffer_index' = 0
                     /\ last_tweet_id' = Some(response.data[1].id)
                     /\ backoff_seconds' = 0
                     /\ UNCHANGED <<use_local_file, rate_limit_hits>>
              [] OTHER ->
                     /\ ApplyBackoff(b)
                     /\ UNCHANGED <<use_local_file, tweet_buffer, buffer_index, last_tweet_id,
                                    rate_limit_hits>>

\* a poll that asks the API whatever the mode
PollTweetsApiOnly(response, b) == PollTwitterApi(response, b)

\* TwitterSpout._poll_tweets
PollTweets(response, b) ==
    IF use_local_file
    THEN /\ LoadLocalFile
         /\ backoff_seconds' = b
         /\ spout_last' = Polled(None)
         /\ UNCHANGED <<use_local_file, last_tweet_id, rate_limit_hits>>
    ELSE PollTwitterApi(response, b)

\* a call of next_tuple that skips the backoff check
InBackoffNever == FALSE

\* next_tuple: the backoff period is not over
InBackoff == backoff_seconds > 0 /\ spout_now - last_poll_time < backoff_seconds

\* TwitterSpout.next_tuple; a backoff period that is over is reset before the poll
NextTuple(response) ==
    IF tweet_buffer # <<>> /\ buffer_index < Len(tweet_buffer)
    THEN LET tweet == tweet_buffer[buffer_index + 1]
             tuple_data == CreateTuple(tweet)
         IN  /\ buffer_index' = buffer_index + 1
             /\ IF tuple_data # None
                THEN /\ pending' = pending \cup {tweet.id}
                     /\ spout_last' = [NoEmission EXCEPT
                                          !.emitted = Some(tweet.id),
                                          !.failed_before = tweet.id \in spout_failed,
                                          !.local = use_local_file]
                ELSE /\ UNCHANGED pending
                     /\ spout_last' = NoEmission
             /\ UNCHANGED <<use_local_file, bearer_token, local_file, tweet_buffer,
                            last_tweet_id, last_poll_time, backoff_seconds, rate_limit_hits,
                            spout_now, spout_failed>>
    ELSE IF InBackoff
    THEN /\ spout_last' = NoEmission
         /\ UNCHANGED <<use_local_file, bearer_token, local_file, tweet_buffer, buffer_index,
                        last_tweet_id, last_poll_time, backoff_seconds, rate_limit_hits,
                        spout_now, pending, spout_failed>>
    ELSE IF spout_now - last_poll_time < PollInterval
    THEN /\ backoff_seconds' = 0
         /\ spout_last' = NoEmission
         /\ UNCHANGED <<use_local_file, bearer_token, local_file, tweet_buffer, buffer_index,
                        last_tweet_id, last_poll_time, rate_limit_hits, spout_now, pending,
                        spout_failed>>
    ELSE /\ response.status = 429 => rate_limit_hits < MaxHits
         /\ PollTweets(response, 0)
         /\ last_poll_time' = spout_now
         /\ UNCHANGED <<bearer_token, local_file, spout_now, pending, spout_failed>>

\* TwitterSpout.ack, called by Storm when the tuple tree of tup_id is fully processed
SpoutAck(tup_id) ==
    /\ tup_id \in pending
    /\ pending' = pending \ {tup_id}
    /\ spout_last' = NoEmission
    /\ UNCHANGED <<use_local_file, bearer_token, local_file, tweet_buffer, buffer_index,
                   last_tweet_id, last_poll_time, backoff_seconds, rate_limit_hits, spout_now,
                   spout_failed>>

\* TwitterSpout.fail, called by Storm when a bolt failed a tuple anchored to tup_id
SpoutFail(tup_id) ==
    /\ tup_id \in pending
    /\ pending' = pending \ {tup_id}
    /\ spout_failed' = spout_failed \cup {tup_id}
    /\ spout_last' = NoEmission
    /\ UNCHANGED <<use_local_file, bearer_token, local_file, tweet_buffer, buffer_index,
                   last_tweet_id, last_poll_time, backoff_seconds, rate_limit_hits, spout_now>>

\* time passes, also while next_tuple sleeps
SpoutTick ==
    /\ spout_now < MaxClock
    /\ spout_now' = spout_now + 1
    /\ spout_last' = NoEmission
    /\ UNCHANGED <<use_local_file, bearer_token, local_file, tweet_buffer, buffer_index,
                   last_tweet_id, last_poll_time, backoff_seconds, rate_limit_hits, pending,
                   spout_failed>>

\* TwitterSpout.initialize: with USE_LOCAL_FILE the file is loaded at once
SpoutInit ==
    /\ StagesStart /\ ClientStart /\ CleanStart /\ ParseStart /\ PipeStart
    /\ use_local_file \in BOOLEAN
    /\ bearer_token \in BOOLEAN
    /\ local_file \in {None} \cup {Some(f) : f \in LocalFiles}
    /\ tweet_buffer = IF use_local_file /\ local_file # None THEN local_file[1] ELSE <<>>
    /\ buffer_index = 0
    /\ last_tweet_id = None
    /\ last_poll_time = 0
    /\ backoff_seconds = 0
    /\ rate_limit_hits = 0
    /\ spout_now = 1
    /\ pending = {}
    /\ spout_failed = {}
    /\ spout_last = NoEmission

SpoutNext ==
    \/ \E response \in ApiReplies(last_tweet_id) :
          NextTuple(response) /\ UNCHANGED <<clientVars, stageVars, cleanVars, parseVars, pipeVars>>
    \/ \E tup_id \in pending : SpoutAck(tup_id) /\ UNCHANGED <<clientVars, stageVars, cleanVars, parseVars, pipeVars>>
    \/ \E tup_id \in pending : SpoutFail(tup_id) /\ UNCHANGED <<clientVars, stageVars, cleanVars, parseVars, pipeVars>>
    \/ SpoutTick /\ UNCHANGED <<clientVars, stageVars, cleanVars, parseVars, pipeVars>>

\* the spout under Storm
SpecSpout == SpoutInit /\ [][SpoutNext]_vars

(***************************************************************************)
(* The pipeline: the Storm topology, in which every bolt takes its tuples  *)
(* from the bolt before it, and run_local_mode, which calls the stages of  *)
(* one tweet after the other in a loop.  A dict is kept as its set of keys *)
(* and its processing_stage; what a stage computes is modelled in the      *)
(* specifications of the stages, here a stage succeeds or fails.  The      *)
(* fields processed and failed of a record are history: the stages that    *)
(* were run on it and those of them that returned a failure.               *)
(***************************************************************************)
NumTweets == 2
BufferSize == 2

\* the keys of the dict TwitterSpout._create_tuple builds
SpoutFields == {"tweet_id", "text", "created_at", "entities"}

\* the keys a stage writes
StageFields(stage) ==
    CASE stage = "parse" -> {"tweet_id", "text", "created_at", "hashtags", "processing_stage"}
      [] stage = "dedup" -> {}
      [] stage = "clean" -> {"text_clean", "text_original", "emoji_sentiment_score",
                             "processing_stage"}
      [] stage = "lang" -> {"detected_lang", "lang_confidence", "lang_method"}
      [] stage = "geo" -> {"geo_lat", "geo_lon", "geo_confidence", "geo_source"}
      [] stage = "noaa" -> {"weather_station_id", "weather_event_type", "noaa_match_quality"}
      [] stage = "sentiment" -> {"sentiment_score", "sentiment_label", "sentiment_method",
                                 "sentiment_confidence"}

\* the processing_stage a stage sets
StageMarker(stage) ==
    CASE stage = "parse" -> "parsed"
      [] stage = "clean" -> "cleaned"
      [] stage = "lang" -> "lang_detected"
      [] stage = "geo" -> "geo_resolved"
      [] stage = "noaa" -> "noaa_enriched"
      [] stage = "sentiment" -> "sentiment_computed"

\* a wiring in which geo_resolve_bolt reads from clean_bolt
DownstreamPastLang(bolt) ==
    IF bolt = "clean" THEN "geo"
    ELSE CHOOSE b \in BoltSet : \E i \in 1..(Len(Bolts) - 1) : Bolts[i] = bolt /\ Bolts[i + 1] = b

\* inputs=[...] of the bolts: the bolt a bolt's tuples go to
Downstream(bolt) ==
    CHOOSE b \in BoltSet : \E i \in 1..(Len(Bolts) - 1) : Bolts[i] = bolt /\ Bolts[i + 1] = b

RawRecord(id) == [id |-> id, keys |-> SpoutFields, processing_stage |-> NoneV,
                  processed |-> <<>>, failed |-> {}]

\* dict.update with a dict of these keys, that replaces the dict by the new keys
Replace(d, fields) == [d EXCEPT !.keys = fields]

\* dict.update with a dict of these keys
Update(d, fields) == [d EXCEPT !.keys = @ \cup fields]

\* d['processing_stage'] = marker
SetStage(d, marker) == [d EXCEPT !.keys = @ \cup {"processing_stage"}, !.processing_stage = marker]

\* ParseBolt._parse_tweet: a new dict
ParseStage(d, ok) ==
    IF ok THEN Some(SetStage([d EXCEPT !.keys = StageFields("parse")], StageMarker("parse")))
    ELSE None

\* CleanBolt._clean_tweet: a copy with the text and the features
CleanStage(d, ok) ==
    IF ok THEN Some(SetStage(Update(d, StageFields("clean")), StageMarker("clean")))
    ELSE None

\* _detect_language, _resolve_geolocation, _compute_sentiment: a dict of the new fields
StageData(stage, ok) == IF ok THEN Some(StageFields(stage)) ELSE None

\* NOAAEnrichBolt._enrich_with_noaa: a copy with the weather fields
NoaaStage(d, ok) == IF ok THEN Some(Update(d, StageFields("noaa"))) ELSE None

\* process() of a bolt on the dict of a tuple: the dict as process leaves it, and the
\* dict it emits, if it emits one; ok is false when the stage fails or DedupBolt drops
BoltHandle(bolt, d, ok) ==
    CASE bolt = "parse" -> [received |-> d, emitted |-> ParseStage(d, ok)]
      [] bolt = "dedup" -> [received |-> d, emitted |-> IF ok THEN Some(d) ELSE None]
      [] bolt = "clean" -> [received |-> d, emitted |-> CleanStage(d, ok)]
      [] bolt = "noaa" ->
             LET enriched_data == NoaaStage(d, ok)
             IN  [received |-> d,
                  emitted |-> IF enriched_data = None THEN None
                              ELSE Some(SetStage(enriched_data[1], StageMarker(bolt)))]
      [] OTHER ->
             LET data == StageData(bolt, ok)
             IN  [received |-> d,
                  emitted |-> IF data = None THEN None
                              ELSE Some(SetStage(Update(d, data[1]), StageMarker(bolt)))]

\* history: the stage was run on the record
Stamp(d, stage, ok) ==
    [d EXCEPT !.processed = Append(@, stage),
              !.failed = IF ok THEN @ ELSE @ \cup {stage}]

\* the topology: TwitterSpout.next_tuple emits a tweet to parse_bolt
SpoutEmit ==
    /\ mode = "topology"
    /\ next_id <= NumTweets
    /\ next_id' = next_id + 1
    /\ inbox' = [inbox EXCEPT !["parse"] = @ \cup {RawRecord(next_id)}]
    /\ stage_last' = NoStage
    /\ UNCHANGED <<mode, write_buffer, write_processed, records_written, local_pc, local_rec, handed>>

\* the topology: one of the seven bolts before write_bolt processes a tuple
BoltProcess(bolt, tup, ok) ==
    LET r == BoltHandle(bolt, tup, ok)
    IN  /\ mode = "topology"
        /\ tup \in inbox[bolt]
        /\ inbox' = IF r.emitted = None
                    THEN [inbox EXCEPT ![bolt] = @ \ {tup}]
                    ELSE [inbox EXCEPT ![bolt] = @ \ {tup},
                                       ![Downstream(bolt)] =
                                           @ \cup {Stamp(r.emitted[1], bolt, TRUE)}]
        /\ stage_last' = [stage |-> bolt, received |-> tup, received_after |-> r.received,
                          emitted |-> r.emitted]
        /\ UNCHANGED <<mode, next_id, write_buffer, write_processed, records_written, local_pc, local_rec, handed>>

\* WriteBolt._flush_buffer: the buffer is kept when writing raises
FlushBuffer(buffer, outcome) ==
    IF buffer = <<>> THEN buffer
    ELSE IF outcome = "error" THEN buffer
    ELSE <<>>

\* WriteBolt._flush_buffer: what a flush of the buffer adds to records_written
FlushCount(buffer, outcome) == IF outcome = "written" THEN Len(buffer) ELSE 0

\* the topology: WriteBolt.process
WriteProcess(tup, time_elapsed, outcome) ==
    LET buffer == Append(write_buffer, tup)
    IN  /\ mode = "topology"
        /\ tup \in inbox["write"]
        /\ inbox' = [inbox EXCEPT !["write"] = @ \ {tup}]
        /\ write_buffer' = IF Len(buffer) >= BufferSize \/ time_elapsed
                           THEN FlushBuffer(buffer, outcome)
                           ELSE buffer
        /\ write_processed' = write_processed + 1
        /\ records_written' = records_written
                               + IF Len(buffer) >= BufferSize \/ time_elapsed
                                 THEN FlushCount(buffer, outcome) ELSE 0
        /\ handed' = Append(handed, tup)
        /\ stage_last' = NoStage
        /\ UNCHANGED <<mode, next_id, local_pc, local_rec>>

\* run_local_mode: one step of the loop body, or the final flush; MAX_TWEETS is taken
\* to be no smaller than the number of tweets
LocalStep(ok, outcome) ==
    /\ mode = "local"
    /\ CASE local_pc = "spout" ->
                IF next_id > NumTweets
                THEN /\ write_buffer' = FlushBuffer(write_buffer, outcome)
                     /\ records_written' = records_written
                                            + FlushCount(write_buffer, outcome)
                     /\ UNCHANGED write_processed
                     /\ local_pc' = "done"
                     /\ stage_last' = NoStage
                     /\ UNCHANGED <<next_id, local_rec, handed>>
                ELSE /\ next_id' = next_id + 1
                     /\ local_rec' = RawRecord(next_id)
                     /\ local_pc' = IF ok THEN "parse" ELSE "spout"
                     /\ stage_last' = NoStage
                     /\ UNCHANGED <<write_buffer, write_processed, records_written, handed>>
         [] local_pc \in {"parse", "clean"} ->
                LET r == IF local_pc = "parse" THEN ParseStage(local_rec, ok)
                         ELSE CleanStage(local_rec, ok)
                IN  /\ local_rec' = IF r = None THEN local_rec ELSE Stamp(r[1], local_pc, TRUE)
                    /\ local_pc' = IF r = None THEN "spout" ELSE Downstream(local_pc)
                    /\ stage_last' = [stage |-> local_pc, received |-> local_rec,
                                      received_after |-> local_rec, emitted |-> r]
                    /\ UNCHANGED <<next_id, write_buffer, write_processed, records_written, handed>>
         [] local_pc = "dedup" ->
                /\ local_rec' = Stamp(local_rec, local_pc, TRUE)
                /\ local_pc' = IF ok THEN Downstream(local_pc) ELSE "spout"
                /\ stage_last' = [stage |-> local_pc, received |-> local_rec,
                                  received_after |-> local_rec,
                                  emitted |-> IF ok THEN Some(local_rec) ELSE None]
                /\ UNCHANGED <<next_id, write_buffer, write_processed, records_written, handed>>
         [] local_pc \in {"lang", "geo", "sentiment"} ->
                LET data == StageData(local_pc, ok)
                    cleaned == IF data = None THEN local_rec ELSE Update(local_rec, data[1])
                IN  /\ local_rec' = Stamp(cleaned, local_pc, ok)
                    /\ local_pc' = Downstream(local_pc)
                    /\ stage_last' = [stage |-> local_pc, received |-> local_rec,
                                      received_after |-> local_rec,
                                      emitted |-> IF data = None THEN None ELSE Some(cleaned)]
                    /\ UNCHANGED <<next_id, write_buffer, write_processed, records_written, handed>>
         [] local_pc = "noaa" ->
                LET noaa_data == NoaaStage(local_rec, ok)
                    cleaned == IF noaa_data = None THEN local_rec ELSE noaa_data[1]
                IN  /\ local_rec' = Stamp(cleaned, local_pc, ok)
                    /\ local_pc' = Downstream(local_pc)
                    /\ stage_last' = [stage |-> local_pc, received |-> local_rec,
                                      received_after |-> local_rec, emitted |-> noaa_data]
                    /\ UNCHANGED <<next_id, write_buffer, write_processed, records_written, handed>>
         [] local_pc = "write" ->
                /\ write_buffer' = Append(write_buffer, local_rec)
                /\ UNCHANGED <<write_processed, records_written>>
                /\ handed' = Append(handed, local_rec)
                /\ local_pc' = "spout"
                /\ local_rec' = NoRecord
                /\ stage_last' = NoStage
                /\ UNCHANGED next_id
         [] OTHER -> FALSE
    /\ UNCHANGED <<mode, inbox>>

\* either way of running the pipeline
PipeInit ==
    /\ StagesStart /\ ClientStart /\ CleanStart /\ ParseStart /\ SpoutStart
    /\ write_processed = 0
    /\ records_written = 0
    /\ mode \in {"topology", "local"}
    /\ next_id = 1
    /\ inbox = [b \in BoltSet |-> {}]
    /\ write_buffer = <<>>
    /\ local_pc = "spout"
    /\ local_rec = NoRecord
    /\ handed = <<>>
    /\ stage_last = NoStage

PipeNext ==
    \/ SpoutEmit /\ UNCHANGED <<clientVars, stageVars, cleanVars, parseVars, spoutVars>>
    \/ \E bolt \in BoltSet \ {"write"}, ok \in BOOLEAN :
          \E tup \in inbox[bolt] :
              BoltProcess(bolt, tup, ok)
              /\ UNCHANGED <<clientVars, stageVars, cleanVars, parseVars, spoutVars>>
    \/ \E tup \in inbox["write"], time_elapsed \in BOOLEAN,
          outcome \in {"written", "unavailable", "error"} :
              WriteProcess(tup, time_elapsed, outcome)
              /\ UNCHANGED <<clientVars, stageVars, cleanVars, parseVars, spoutVars>>
    \/ \E ok \in BOOLEAN, outcome \in {"written", "unavailable", "error"} :
          LocalStep(ok, outcome) /\ UNCHANGED <<clientVars, stageVars, cleanVars, parseVars, spoutVars>>

\* the pipeline from the spout to the write buffer
SpecPipeline == PipeInit /\ [][PipeNext]_vars

(***************************************************************************)
(* NOAAClient._make_request and its request counter.  Time is counted in   *)
(* days, so the sleeps of _apply_rate_limit (60 s at the limit, up to      *)
(* 0.2 s between requests) take no tick; last_request_time only feeds the  *)
(* 0.2 s delay and is left out.                                            *)
(***************************************************************************)
MAX_REQUESTS_PER_DAY == 1000
CounterPeriod == 1       \* 86400 s
MaxClientClock == 3      \* days the clock advances
MaxUncounted == 1        \* requests per counting period that raise
MaxOver == 2             \* requests explored beyond MAX_REQUESTS_PER_DAY

\* NOAAClient._apply_rate_limit: the counter and its reset time afterwards; at the
\* limit it sleeps 60 s and returns
ApplyRateLimit ==
    LET reset == client_now - request_count_reset_time > CounterPeriod
    IN  [request_count |-> IF reset THEN 0 ELSE request_count,
         request_count_reset_time |-> IF reset THEN client_now ELSE request_count_reset_time,
         uncounted |-> IF reset THEN 0 ELSE uncounted]

\* NOAAClient._make_request; requests.get answers (any status) or raises
MakeRequest(outcome) ==
    IF ~api_token
    THEN /\ client_last' = NoRequest
         /\ UNCHANGED <<request_count, request_count_reset_time, client_now, uncounted>>
    ELSE LET limit == ApplyRateLimit
         IN  /\ limit.request_count < MAX_REQUESTS_PER_DAY + MaxOver
             /\ outcome = "raised" => limit.uncounted < MaxUncounted
             /\ request_count_reset_time' = limit.request_count_reset_time
             /\ request_count' = IF outcome = "answered" THEN limit.request_count + 1
                                 ELSE limit.request_count
             /\ uncounted' = IF outcome = "raised" THEN limit.uncounted + 1
                             ELSE limit.uncounted
             /\ client_last' = [sent |-> TRUE, counted |-> limit.request_count]
             /\ UNCHANGED client_now

\* time passes
ClientTick ==
    /\ client_now < MaxClientClock
    /\ client_now' = client_now + 1
    /\ client_last' = NoRequest
    /\ UNCHANGED <<request_count, request_count_reset_time, uncounted>>

\* NOAAClient.__init__, with or without a token
ClientInit ==
    /\ EarlierStart /\ LangStart /\ WeatherStart /\ SentStart
    /\ CleanStart /\ ParseStart /\ SpoutStart /\ PipeStart /\ ClientStart
    /\ api_token \in BOOLEAN
    /\ noaa_cache_ok = FALSE
    /\ station_cache = [k \in StationCacheKeys |-> None]
    /\ noaa_pc = "idle"
    /\ noaa_job = NoEnrichJob
    /\ noaa_last = NoEnrichment

ClientNext ==
    \/ \E outcome \in {"answered", "raised"} :
          MakeRequest(outcome)
          /\ UNCHANGED <<stageVars, cleanVars, parseVars, spoutVars, pipeVars>>
    \/ ClientTick /\ UNCHANGED <<stageVars, cleanVars, parseVars, spoutVars, pipeVars>>

\* one NOAAClient and the requests it is asked to make
SpecNoaaClient == ClientInit /\ [][ClientNext]_vars

(***************************************************************************)
(* Claims about DedupBolt                                                  *)
(***************************************************************************)

\* C1: after any sequence of process calls, seen_tweet_ids and seen_text_hashes
\* each hold at most max_cache_size entries.
C1_CacheBounded ==
    \A i \in DedupInstances :
        /\ Len(seen_tweet_ids[i]) <= max_cache_size[i]
        /\ Len(seen_text_hashes[i]) <= max_cache_size[i]

\* an admission into two full caches of capacity 2 that evicted a key
C1_Witness ==
    /\ last.outcome = "emitted"
    /\ last.evicted
    /\ max_cache_size[last.inst] = 2
    /\ Len(seen_tweet_ids[last.inst]) = 2
    /\ Len(seen_text_hashes[last.inst]) = 2

\* C2 (as stated): a key found by a lookup is evicted only after every other key
\* that was in that cache at the moment of the hit has been evicted.
C2_EvictedAfterAllThenCached == track.evicted => track.pending = {}

\* C2 (amended): a key found by a lookup is evicted only after every other key
\* that was in that cache at the moment of the hit has been evicted or has itself
\* been found by a later lookup.
C2_EvictedAfterAllNotRefreshed == track.evicted => track.older = {}

\* a key was hit while another key was cached with it, and was evicted later
C2_Witness == track.evicted /\ track.others >= 1

\* the fingerprint as the claim words it: lowercase(strip(text))
FingerprintOfStripThenLower(text) == Md5Hex(Lower(Strip(text)))

\* C3: process emits a tuple iff it is no repost, its id is absent from the identity
\* cache and the fingerprint of its text is absent from the fingerprint cache; after
\* an emit the id and the fingerprint are both cached.  (A tuple whose text is None
\* has no fingerprint; process fails it.)
C3_EmitIffNew ==
    [][ LET i == last'.inst
            tup == last'.tup
            fp == FingerprintOfStripThenLower(GetText(tup).val)
        IN  tup.text.kind # "none" =>
              /\ (last'.outcome = "emitted") <=>
                    /\ ~tup.retweet_status
                    /\ tup.tweet_id \notin Keys(seen_tweet_ids[i])
                    /\ fp \notin Keys(seen_text_hashes[i])
              /\ last'.outcome = "emitted" =>
                    /\ tup.tweet_id \in Keys(seen_tweet_ids'[i])
                    /\ fp \in Keys(seen_text_hashes'[i])
      ]_vars

\* a tuple whose text is changed by lowering and stripping was emitted into
\* caches that hold another key
C3_Witness ==
    /\ last.outcome = "emitted"
    /\ Len(seen_tweet_ids[last.inst]) = 2
    /\ last.tup.text.val = <<" ", "A">>

\* C4: from empty caches of capacity C, adding C+1 pairwise distinct keys through
\* _add_to_cache leaves exactly C keys in each cache: the first is absent, the C later
\* ones are present.
C4_FirstOfCapPlusOneEvicted ==
    \A i \in DedupInstances :
        Len(added) = max_cache_size[i] + 1 =>
            /\ Len(seen_tweet_ids[i]) = max_cache_size[i]
            /\ Len(seen_text_hashes[i]) = max_cache_size[i]
            /\ Keys(seen_tweet_ids[i]) = {added[n][1] : n \in 2..Len(added)}
            /\ Keys(seen_text_hashes[i]) = {added[n][2] : n \in 2..Len(added)}
            /\ added[1][1] \notin Keys(seen_tweet_ids[i])
            /\ added[1][2] \notin Keys(seen_text_hashes[i])

\* three distinct keys were added to caches of capacity 2
C4_Witness == Len(added) = 3 /\ max_cache_size[1] = 2

\* C5: when a non-repost tuple with id X was admitted and the next tuple has the
\* same id and another text, the second is not emitted, and the fingerprint cache
\* is not consulted: a non-repost is dropped by the id check.
C5_SameIdDropped ==
    last.follows_admit =>
        /\ last.outcome # "emitted"
        /\ ~last.hash_looked_up
        /\ ~last.tup.retweet_status => last.outcome = "duplicate_id"

\* a tuple with the id just admitted and a text of another fingerprint was dropped
C5_Witness ==
    /\ last.follows_admit
    /\ last.outcome = "duplicate_id"
    /\ ComputeTextHash(GetText(last.tup).val) \notin Keys(seen_text_hashes[last.inst])

\* C6: every tuple is checked against one shared pair of caches, one tuple at a
\* time: a non-repost tuple whose id is cached by the dedup stage is never emitted.
C6_NoSecondEmitWhileCached ==
    [][ last'.outcome = "emitted" =>
            \A j \in DedupInstances : last'.tup.tweet_id \notin Keys(seen_tweet_ids[j])
      ]_vars

\* a non-repost tuple arrived while its id was cached, not right after its
\* admission, and was dropped
C6_Witness ==
    /\ last.outcome = "duplicate_id"
    /\ ~last.follows_admit
    /\ Len(seen_tweet_ids[last.inst]) = 2

(***************************************************************************)
(* Claims about GeoResolveBolt                                             *)
(***************************************************************************)
\* the latest step returned a resolution
Returned == geo_last.result # None

\* the record carried coordinates with a latitude and a longitude
HasPair == geo_last.given.lat # None /\ geo_last.given.lon # None

\* the record carried no string to geocode: none at all, or whitespace only
NoLocationString ==
    \/ geo_last.given.location.kind # "str"
    \/ \A n \in 1..Len(geo_last.given.location.val) : geo_last.given.location.val[n] = " "

\* the coordinates of the result returned, or None
ResultPair ==
    IF geo_last.result[1].geo_lat # None /\ geo_last.result[1].geo_lon # None
    THEN Some(<<geo_last.result[1].geo_lat[1], geo_last.result[1].geo_lon[1]>>)
    ELSE None

C8_UnavailableIffNoPair ==
    Returned =>
        /\ geo_last.result[1].geo_confidence \in {"high", "medium", "low", "unavailable"}
        /\ geo_last.result[1].geo_confidence = "unavailable"
              <=> (geo_last.result[1].geo_lat = None /\ geo_last.result[1].geo_lon = None)
        /\ geo_last.result[1].geo_confidence # "unavailable"
              <=> (geo_last.result[1].geo_lat # None /\ geo_last.result[1].geo_lon # None)
        /\ geo_last.result[1].geo_confidence = "unavailable"
              <=> (~HasPair /\ geo_last.given.centroid = None /\ geo_last.geocoded = None)
        /\ (/\ ~HasPair /\ geo_last.given.centroid = None
            /\ \/ NoLocationString
               \/ ~geocoder_ok
               \/ geo_last.reply \in {"not_found", "error"})
              => geo_last.result[1].geo_confidence = "unavailable"

\* a record with a place whose centroid cannot be computed and a location the
\* geocoder did not find came back 'unavailable'
C8_Witness ==
    /\ Returned
    /\ geo_last.given.place /\ geo_last.given.centroid = None
    /\ geo_last.reply = "not_found"
    /\ geo_last.result[1].geo_confidence = "unavailable"

\* C9: any two calls of the geocoder, by whichever workers, are at least
\* GEOCODING_DELAY apart.  REFUTED: last_geocode_time is kept per worker, and a
\* call that raises does not set it.
C9_CallsOneSecondApart ==
    geo_last.gap # None => geo_last.gap[1] >= DelayTicks

TrimmedText == Strip(lang_last.text.val)

\* the declared language of the latest call
DeclaredLang == IF lang_last.lang = None THEN "unknown" ELSE lang_last.lang[1]

PrimaryAnswered == lang_last.primary # None /\ lang_last.primary[1].kind = "ok"

\* the secondary classifier answered the latest call with a top language
SecondaryAnswered == lang_last.secondary # None /\ lang_last.secondary[1].kind = "ok"

ClassifiedPrecip ==
    IF weather_last.metrics.precipitation_mm = None THEN 0
    ELSE weather_last.metrics.precipitation_mm[1]

ClassifiedWind ==
    IF weather_last.metrics.wind_speed_ms = None THEN 0
    ELSE weather_last.metrics.wind_speed_ms[1]

\* the maximum temperature lies in the set (vacuously not when it is missing)
TempIn(S) ==
    /\ weather_last.metrics.temperature_max_c # None
    /\ weather_last.metrics.temperature_max_c[1] \in S

\* C16: only the first matching rule applies: precipitation > 25 heavy_rain, > 10
\* rain, > 0 light_rain; else wind > 20 high_wind, > 10 windy; else temperature
\* > 35 extreme_heat, > 30 heat, < 0 freezing, < 5 cold; else normal.  Missing
\* precipitation or wind count as 0; 30 mm is heavy_rain whatever the rest.
C16_FirstMatchingRule ==
    weather_last.op = "classify" =>
        LET e == weather_last.event_type
            p == ClassifiedPrecip
            w == ClassifiedWind
            dry == p <= 0
            calm == dry /\ w <= 100
        IN  /\ e = "heavy_rain" <=> p > 250
            /\ e = "rain" <=> (p > 100 /\ p <= 250)
            /\ e = "light_rain" <=> (p > 0 /\ p <= 100)
            /\ e = "high_wind" <=> (dry /\ w > 200)
            /\ e = "windy" <=> (dry /\ w > 100 /\ w <= 200)
            /\ e = "extreme_heat" <=> (calm /\ TempIn(351..1000))
            /\ e = "heat" <=> (calm /\ TempIn(301..350))
            /\ e = "freezing" <=> (calm /\ TempIn(-1000..-1))
            /\ e = "cold" <=> (calm /\ TempIn(0..49))
            /\ e = "normal" <=> (calm /\ ~TempIn(-1000..49) /\ ~TempIn(301..1000))
            /\ p = 300 => e = "heavy_rain"

\* 30 mm of precipitation with a wind above 20 m/s and a maximum above 35 degrees
\* was classified heavy_rain
C16_Witness ==
    /\ weather_last.op = "classify"
    /\ ClassifiedPrecip = 300 /\ ClassifiedWind = 201 /\ TempIn({351})
    /\ weather_last.event_type = "heavy_rain"

Aggregated == weather_last.op = "aggregate"

\* the values a list of observations holds under one key
ValuesOf(key) ==
    {weather_last.observations[i][key][1] :
        i \in {j \in DOMAIN weather_last.observations : weather_last.observations[j][key] # None}}

\* how many observations of the list hold a value under the key, and their total
CountOf(key) ==
    Cardinality({j \in DOMAIN weather_last.observations : weather_last.observations[j][key] # None})

RECURSIVE TotalOf(_, _)
TotalOf(key, n) ==
    IF n = 0 THEN 0
    ELSE TotalOf(key, n - 1)
         + (IF weather_last.observations[n][key] # None
            THEN weather_last.observations[n][key][1] ELSE 0)

\* the offset of the i-th observation from the record's time
OffsetOf(i) == Abs(weather_last.observations[i].timestamp.at - weather_last.tweet_time)

Timed == {i \in DOMAIN weather_last.observations :
            weather_last.observations[i].timestamp.kind = "ok"}

\* the first of the observations with the smallest offset
FirstClosest ==
    CHOOSE i \in Timed :
        /\ \A j \in Timed : OffsetOf(i) <= OffsetOf(j)
        /\ \A j \in Timed : j < i => OffsetOf(j) > OffsetOf(i)

Enriched == noaa_last.returned

\* every weather field of the returned record is null
AllWeatherNull(r) ==
    /\ r.weather_station_id = None
    /\ r.weather_station_name = None
    /\ r.weather_station_distance_km = None
    /\ r.weather_temp_c = None
    /\ r.weather_temp_max_c = None
    /\ r.weather_temp_min_c = None
    /\ r.weather_precip_mm = None
    /\ r.weather_wind_speed_ms = None
    /\ r.weather_event_type = None
    /\ r.weather_observation_time = None

\* the record came without a usable geolocation
TierUnavailable ==
    \/ noaa_last.tweet.geo_confidence = Some("unavailable")
    \/ noaa_last.tweet.geo_lat = None
    \/ noaa_last.tweet.geo_lon = None

\* C13: when the record's geolocation tier is 'unavailable', or its resolved lat
\* or lon is null, no station is looked up and no observations are queried, and
\* the record is returned with every weather field null and match quality
\* 'no_geolocation'.
C13_NoGeolocationSkips ==
    (Enriched /\ TierUnavailable) =>
        /\ ~noaa_last.looked_up
        /\ ~noaa_last.requested
        /\ ~noaa_last.from_cache
        /\ ~noaa_last.queried
        /\ noaa_last.station = None
        /\ noaa_last.result # None
        /\ AllWeatherNull(noaa_last.result[1])
        /\ noaa_last.result[1].noaa_match_quality = "no_geolocation"

\* a record of tier 'unavailable' that still carries both coordinates, returned
\* by a bolt that has a token and a cache
C13_Witness ==
    /\ Enriched
    /\ api_token
    /\ noaa_cache_ok
    /\ noaa_last.tweet.geo_confidence = Some("unavailable")
    /\ noaa_last.tweet.geo_lat = Some(PointA)
    /\ noaa_last.tweet.geo_lon # None
    /\ noaa_last.result # None
    /\ noaa_last.result[1].noaa_match_quality = "no_geolocation"

\* C14 as the specification states it: a record with a resolved coordinate for
\* which no station is found is returned with match quality 'no_station'.
C14_NoStationQuality ==
    (Enriched /\ ~TierUnavailable /\ noaa_last.tweet.geo_confidence # None
     /\ noaa_last.looked_up /\ noaa_last.station = None /\ noaa_last.result # None) =>
        /\ AllWeatherNull(noaa_last.result[1])
        /\ noaa_last.result[1].noaa_match_quality = "no_station"

\* the observations of the returned call that hold a value that is aggregated
Contributing ==
    {i \in DOMAIN noaa_last.observations[1] :
        LET obs == noaa_last.observations[1][i]
        IN  \/ obs.temperature_max_c # None
            \/ obs.temperature_min_c # None
            \/ obs.precipitation_mm # None
            \/ obs.wind_speed_ms # None}

\* the observations of the returned call whose time is the closest one recorded
ChosenClosest ==
    {i \in DOMAIN noaa_last.observations[1] :
        /\ noaa_last.observations[1][i].timestamp.kind = "ok"
        /\ noaa_last.result[1].weather_observation_time
             = Some(noaa_last.observations[1][i].timestamp.at)}

\* C15 as the specification states it: every observation that contributes to the
\* aggregated metrics or is chosen as the closest observation has its timestamp
\* within one hour of the record's created_at (observations without a readable
\* timestamp are not counted against it here).
C15_ObservationsInsideWindow ==
    (Enriched /\ noaa_last.observations # None) =>
        \A i \in Contributing \cup ChosenClosest :
            LET obs == noaa_last.observations[1][i]
            IN  obs.timestamp.kind = "ok" =>
                    /\ obs.timestamp.at >= noaa_last.tweet.created_at.at - 60 * TIME_WINDOW_HOURS
                    /\ obs.timestamp.at <= noaa_last.tweet.created_at.at + 60 * TIME_WINDOW_HOURS

\* the offsets, in minutes, of the observations of the returned call
Offsets ==
    {Abs(noaa_last.observations[1][i].timestamp.at - noaa_last.tweet.created_at.at) :
        i \in {j \in DOMAIN noaa_last.observations[1] :
                 noaa_last.observations[1][j].timestamp.kind = "ok"}}

Located ==
    {i \in DOMAIN noaa_last.stations[1] : noaa_last.stations[1][i].latitude # None}

\* C19 as the specification states it: a station that find_nearest_station
\* returns, fresh or from the cache, is the candidate nearest to the query
\* point, and its distance_km is the distance to that query point and at most
\* the radius.
C19_NearestWithinRadius ==
    (Enriched /\ noaa_last.station # None) =>
        LET station == noaa_last.station[1]
            lat == noaa_last.tweet.geo_lat[1]
            distance == CalculateDistance(lat, station.latitude)
        IN  /\ station.distance_km = Round2(distance)
            /\ distance <= MAX_STATION_DISTANCE_KM * 1000
            /\ noaa_last.stations # None =>
                 \A i \in Located :
                     CalculateDistance(lat, noaa_last.stations[1][i].latitude[1]) >= distance

(***************************************************************************)
(* Claims about SentimentModel.compute_sentiment                           *)
(***************************************************************************)
Scored == sent_last.returned

\* the model the specification routes the language to is loaded
RoutedAvailable == IF sent_last.language = "en" THEN model_en ELSE model_multilingual

\* C20 as the specification states it: language 'en' is scored by the English
\* model and any other language by the multilingual model; when the routed model
\* is not available the lexicon scorer is used instead; with no scorer at all
\* the result is score 0, label neutral, confidence 0.
C20_RoutesByLanguage ==
    Scored =>
        /\ RoutedAvailable =>
             sent_last.method_name
               = Some(IF sent_last.language = "en" THEN "roberta_en" ELSE "xlm_roberta")
        /\ (~RoutedAvailable /\ vader) =>
             /\ sent_last.method_name = None
             /\ sent_last.reply = None
             /\ sent_last.lexicon # None
        /\ (~model_en /\ ~model_multilingual /\ ~vader) =>
             /\ sent_last.result.sentiment_score = 0
             /\ sent_last.result.sentiment_label = "neutral"
             /\ sent_last.result.sentiment_confidence = 0

\* the routed model raised at inference time
ModelRaised == Scored /\ sent_last.reply # None /\ ~sent_last.reply[1].ok

\* the lexicon scorer was asked and answered
LexiconAnswered == sent_last.lexicon # None /\ sent_last.lexicon[1].ok

\* the result is the neutral default
NeutralDefault ==
    /\ sent_last.result.sentiment_score = 0
    /\ sent_last.result.sentiment_label = "neutral"
    /\ sent_last.result.sentiment_confidence = 0

\* the adjustment the specification gives for the emoji score of the call
SpecAdjustment ==
    IF sent_last.emoji_sentiment_score * 2 > 2000 THEN 2000
    ELSE IF sent_last.emoji_sentiment_score * 2 < -2000 THEN -2000
    ELSE sent_last.emoji_sentiment_score * 2

\* a raw score with the adjustment of the call, kept within [-1, 1]
SpecFinal(raw) ==
    IF raw + SpecAdjustment > 10000 THEN 10000
    ELSE IF raw + SpecAdjustment < -10000 THEN -10000
    ELSE raw + SpecAdjustment

\* C21: when the routed model raises at inference time, compute_sentiment still
\* returns a result: the lexicon scorer is asked whenever it is available and its
\* score, adjusted and rounded, is the result's score; without a lexicon scorer,
\* or when it raises too, the result is the neutral default (score 0, label
\* neutral, confidence 0).
C21_RaisingModelNeverAborts ==
    ModelRaised =>
        /\ sent_pc = "idle"
        /\ vader = (sent_last.lexicon # None)
        /\ IF LexiconAnswered
           THEN /\ sent_last.result.sentiment_method = "vader_fallback"
                /\ Abs(10 * sent_last.result.sentiment_score
                       - SpecFinal(sent_last.lexicon[1].compound)) <= 5
                /\ Abs(10 * sent_last.result.sentiment_confidence
                       - Abs(sent_last.lexicon[1].compound)) <= 5
           ELSE /\ NeutralDefault
                /\ sent_last.result.sentiment_method = "error"

\* the routed model raised and the lexicon scorer gave a compound score of 0.8004
C21_Witness ==
    /\ ModelRaised
    /\ LexiconAnswered
    /\ sent_last.lexicon[1].compound = 8004
    /\ sent_last.emoji_sentiment_score = 0
    /\ sent_last.result.sentiment_score = 800
    /\ sent_last.result.sentiment_label = "positive"

\* a scorer answered the call
HasRaw == Scored /\ (LexiconAnswered \/ (sent_last.reply # None /\ sent_last.reply[1].ok))

\* the raw score of the scorer that answered, in ten-thousandths
RawScore ==
    IF LexiconAnswered THEN sent_last.lexicon[1].compound
    ELSE IF sent_last.reply[1].label \in {"positive", "POSITIVE", "POS"}
    THEN sent_last.reply[1].score
    ELSE IF sent_last.reply[1].label \in {"negative", "NEGATIVE", "NEG"}
    THEN -sent_last.reply[1].score
    ELSE 0

\* C22 as the specification states it: an emoji score of 0 leaves the raw score
\* unchanged in the returned sentiment_score, and for every emoji score the
\* returned score differs from the raw score by at most 0.2.
C22_EmojiAdjustmentExact ==
    HasRaw =>
        /\ sent_last.emoji_sentiment_score = 0 => 10 * sent_last.result.sentiment_score = RawScore
        /\ Abs(10 * sent_last.result.sentiment_score - RawScore) <= 2000

\* C22, amended: the returned sentiment_score is the raw score plus
\* emoji_sentiment_score * 0.2 clamped to [-0.2, 0.2], kept within [-1, 1] and
\* rounded to three decimals; so an emoji score of 0 returns the raw score rounded
\* to three decimals, and for every emoji score the returned score differs from
\* the raw score by at most 0.2 plus half a thousandth.
C22_EmojiAdjustmentRounded ==
    HasRaw =>
        /\ Abs(10 * sent_last.result.sentiment_score - SpecFinal(RawScore)) <= 5
        /\ sent_last.emoji_sentiment_score = 0 =>
             Abs(10 * sent_last.result.sentiment_score - RawScore) <= 5
        /\ Abs(10 * sent_last.result.sentiment_score - RawScore) <= 2000 + 5

\* an emoji score of 5 with a raw score of 0.1: the returned score is 0.3
C22_Witness ==
    /\ HasRaw
    /\ sent_last.emoji_sentiment_score = 5000
    /\ RawScore = 1000
    /\ sent_last.result.sentiment_score = 300

\* C23 as the specification states it: sentiment_score lies in [-1, 1] and the
\* label is 'positive' exactly when the score is above 0.3, 'negative' exactly
\* when it is below -0.3, and 'neutral' otherwise.
C23_LabelAgreesWithScore ==
    Scored =>
        /\ sent_last.result.sentiment_score >= -1000
        /\ sent_last.result.sentiment_score <= 1000
        /\ (sent_last.result.sentiment_label = "positive")
             = (sent_last.result.sentiment_score > 300)
        /\ (sent_last.result.sentiment_label = "negative")
             = (sent_last.result.sentiment_score < -300)
        /\ sent_last.result.sentiment_label \in {"positive", "negative", "neutral"}

(***************************************************************************)
(* CleanBolt claims                                                        *)
(***************************************************************************)
\* C24: CleanBolt fails closed: whenever one of the transformations raised while a
\* tuple was cleaned, no cleaned record is emitted for it and the tuple is failed.
C24_FailsClosed ==
    clean_last.called /\ clean_last.threw # {} =>
        clean_last.emitted = None /\ clean_last.failed

\* the other transformations do fail closed
C24_OthersFailClosed ==
    clean_last.called /\ clean_last.threw \ {"contractions"} # {} =>
        clean_last.emitted = None /\ clean_last.failed

(***************************************************************************)
(* ParseBolt claims                                                        *)
(***************************************************************************)
Parsed == parse_last.called

\* the timestamps that are ISO 8601
IsIso8601(timestamp_str) ==
    timestamp_str \in {"2024-01-15T14:30:00.000Z", "2024-01-15T14:30:00.000+00:00",
                       "2024-01-15T14:30:00.000+0000"}

\* tweet_id, text and created_at are there, the text is not blank, the timestamp reads
RequiredValid(tweet_data) ==
    /\ tweet_data.dict
    /\ tweet_data.tweet_id \notin {Missing, Null}
    /\ tweet_data.text.kind = "str"
    /\ \E i \in DOMAIN tweet_data.text.val : tweet_data.text.val[i] # " "
    /\ tweet_data.created_at \notin {Missing, Null}
    /\ IsIso8601(tweet_data.created_at)

\* the optional fields _parse_tweet converts are of the expected shape
OptionalWellFormed(tweet_data) ==
    /\ tweet_data.entities # Null
    /\ tweet_data.retweet_count \notin {Null, "many"}

Rejected ==
    /\ parse_last.failed
    /\ ~parse_last.acked
    /\ parse_last.emitted = None
    /\ parse_last.counted = 1

Emitted ==
    /\ ~parse_last.failed
    /\ parse_last.emitted # None
    /\ parse_last.counted = 0

C29_FailedNeverEmittedAgain ==
    spout_last.emitted # None => ~spout_last.failed_before

\* as long as the spout polls the API, no failed tweet is emitted again
C29_ApiNeverEmitsAgain ==
    spout_last.emitted # None /\ ~spout_last.local => ~spout_last.failed_before

(***************************************************************************)
(* Pipeline claims                                                         *)
(***************************************************************************)
Handed == {handed[i] : i \in DOMAIN handed}

\* the stages that write fields, in order
EnrichmentStages == <<"parse", "clean", "lang", "geo", "noaa", "sentiment">>

\* the last enrichment stage that was run on the record and did not fail
LastApplied(rec) ==
    LET applied == {i \in DOMAIN EnrichmentStages :
                        /\ \E j \in DOMAIN rec.processed : rec.processed[j] = EnrichmentStages[i]
                        /\ EnrichmentStages[i] \notin rec.failed}
    IN  EnrichmentStages[CHOOSE i \in applied : \A j \in applied : j <= i]

\* C25: every record handed to storage carries a processing_stage that names the last
\* enrichment stage successfully applied to it, in the topology and in run_local_mode.
C25_MarkerNamesLastStage ==
    \A rec \in Handed :
        /\ "processing_stage" \in rec.keys
        /\ rec.processing_stage = StageMarker(LastApplied(rec))

\* in the topology it does
C25_TopologyMarker == mode = "topology" => C25_MarkerNamesLastStage

\* the fields every stage writes
AllStageFields == UNION {StageFields(Bolts[i]) : i \in 1..(Len(Bolts) - 1)}

\* C26: every record appended to the write buffer has the output fields of every stage,
\* and no stage returned a failure for it, in the topology and in run_local_mode.
C26_NoPartialRecord ==
    \A rec \in Handed : AllStageFields \subseteq rec.keys /\ rec.failed = {}

\* in the topology no partial record reaches the buffer
C26_TopologyComplete == mode = "topology" => C26_NoPartialRecord

Upstream(bolt) ==
    LET k == CHOOSE i \in DOMAIN Bolts : Bolts[i] = bolt IN SubSeq(Bolts, 1, k - 1)

Normalized(text) == Strip(Lower(text))

\* C31: texts that are equal after lowercasing and trimming have the same fingerprint,
\* and a non-repost tuple with an uncached id whose text is equal, after lowercasing
\* and trimming, to a text whose fingerprint is cached is dropped as a duplicate text.
\* (Every text is the text of some processed tuple, so all pairs of texts are compared.)
C31_EqualNormalizedSameFingerprint ==
    [][ LET i == last'.inst
            tup == last'.tup
        IN  tup.text.kind = "str" =>
                \A t1 \in Texts :
                    Normalized(t1) = Normalized(tup.text.val) =>
                        /\ ComputeTextHash(t1) = ComputeTextHash(tup.text.val)
                        /\ ( /\ ~tup.retweet_status
                             /\ tup.tweet_id \notin Keys(seen_tweet_ids[i])
                             /\ ComputeTextHash(t1) \in Keys(seen_text_hashes[i]) )
                               => last'.outcome = "duplicate_hash"
      ]_vars

\* a tuple with the text " A" was dropped for its fingerprint, that of "a", while the
\* one cached id is another
C31_Witness ==
    /\ last.outcome = "duplicate_hash"
    /\ last.tup.text.val = <<" ", "A">>
    /\ ComputeTextHash(<<"a">>) \in Keys(seen_text_hashes[last.inst])
    /\ last.tup.tweet_id \notin Keys(seen_tweet_ids[last.inst])

\* cache after is cache before with the recency of key k refreshed: the same keys,
\* the other keys in the order they had, and k the youngest
Refreshed(before, after, k) ==
    /\ Keys(after) = Keys(before)
    /\ Len(after) = Len(before)
    /\ Without(after, k) = Without(before, k)
    /\ after[Len(after)] = k

\* C37: a tuple dropped as a repost leaves both caches as they were; a tuple dropped
\* for a duplicate id leaves the fingerprint cache as it was and changes the identity
\* cache only by the refresh of its id; a tuple dropped for a duplicate fingerprint
\* leaves the identity cache as it was (its id is not recorded) and changes the
\* fingerprint cache only by the refresh of its fingerprint.
C37_DropOnlyRefreshes ==
    [][ LET i == last'.inst
            tup == last'.tup
        IN  /\ last'.outcome = "retweet" =>
                   /\ seen_tweet_ids' = seen_tweet_ids
                   /\ seen_text_hashes' = seen_text_hashes
            /\ last'.outcome = "duplicate_id" =>
                   /\ seen_text_hashes' = seen_text_hashes
                   /\ \A j \in DedupInstances \ {i} : seen_tweet_ids'[j] = seen_tweet_ids[j]
                   /\ Refreshed(seen_tweet_ids[i], seen_tweet_ids'[i], tup.tweet_id)
            /\ last'.outcome = "duplicate_hash" =>
                   /\ seen_tweet_ids' = seen_tweet_ids
                   /\ tup.tweet_id \notin Keys(seen_tweet_ids'[i])
                   /\ \A j \in DedupInstances \ {i} : seen_text_hashes'[j] = seen_text_hashes[j]
                   /\ Refreshed(seen_text_hashes[i], seen_text_hashes'[i],
                                ComputeTextHash(GetText(tup).val))
      ]_vars

\* a tuple was dropped for its fingerprint, now the younger of the two cached ones
C37_Witness ==
    /\ last.outcome = "duplicate_hash"
    /\ Len(seen_text_hashes[last.inst]) = 2
    /\ seen_text_hashes[last.inst][2] = ComputeTextHash(GetText(last.tup).val)
    /\ Len(seen_tweet_ids[last.inst]) = 2

\* the id of the window is in the identity cache of its instance
WindowCached == track.id \in Keys(seen_tweet_ids[track.inst])

\* a non-repost tuple with the id of the window, when that id is cached, is dropped
CachedIdDropped ==
    (track.cache = "window" /\ WindowCached /\ track'.cache = "window" /\ track'.own # "none")
        => track'.own = "duplicate_id"

\* a non-repost tuple with the id of the window, after that id was evicted, is emitted
\* when its fingerprint is not cached
EvictedIdAdmitted ==
    (track.cache = "window" /\ track.evicted /\ track'.own # "none" /\ track'.uncached)
        => track'.own = "emitted"

\* C36, as stated: a non-repost tuple whose id is cached is dropped; the id stays cached
\* while fewer than max_cache_size tuples with other ids were emitted since it was last
\* inserted or hit, and after max_cache_size of them it has been evicted and is emitted again.
C36_CachedWhileFewAdmitted ==
    [][ /\ CachedIdDropped
        /\ (track.cache = "window" /\ track.others < max_cache_size[track.inst]
                => WindowCached)'
        /\ (track.cache = "window" /\ track.others >= max_cache_size[track.inst]
                => ~WindowCached /\ track.evicted)'
        /\ EvictedIdAdmitted
      ]_vars

\* C36, amended: the id stays cached exactly while fewer than max_cache_size other ids
\* were inserted or hit since it was last inserted or hit; max_cache_size emitted tuples
\* with other ids are enough to evict it, and then it is emitted again.
C36_CachedWhileFewTouched ==
    [][ /\ CachedIdDropped
        /\ (track.cache = "window"
                => /\ WindowCached <=> Cardinality(track.pending) < max_cache_size[track.inst]
                   /\ WindowCached <=> ~track.evicted
                   /\ track.others >= max_cache_size[track.inst] => track.evicted)'
        /\ EvictedIdAdmitted
      ]_vars

\* the id of the window was evicted after fewer than max_cache_size tuples with other
\* ids were emitted, another id having been hit
C36_Witness ==
    /\ track.cache = "window"
    /\ track.evicted
    /\ track.others < max_cache_size[track.inst]
    /\ Cardinality(track.pending) = max_cache_size[track.inst]

(***************************************************************************)
(* More claims about TwitterSpout                                          *)
(***************************************************************************)
\* the call of next_tuple that ends here sent a request to the API
RequestSent == spout_last.request # None

\* the call of next_tuple that ends here sent a request with this outcome
Answered(statuses) == RequestSent /\ spout_last.request[1] \in statuses

\* C32: over consecutive failed polls (no rate limit among them) the wait is
\* INITIAL_BACKOFF_SECONDS after the first and doubles after each further one, up to
\* MAX_BACKOFF_SECONDS; a successful poll resets it to 0.
C32_BackoffDoublesPerFailure ==
    [][ /\ (Answered({500, RequestRaised})' /\ rate_limit_hits = 0) =>
               backoff_seconds' = IF backoff_seconds = 0 THEN INITIAL_BACKOFF_SECONDS
                                  ELSE Min(2 * backoff_seconds, MAX_BACKOFF_SECONDS)
        /\ Answered({200})' => backoff_seconds' = 0
      ]_vars

\* C33: a poll answered with 429 adds one to rate_limit_hits, makes backoff_seconds
\* positive and leaves the buffer alone, and no request is sent before backoff_seconds
\* have passed since the latest poll.
C33_RateLimitHoldsRequests ==
    [][ /\ Answered({429})' =>
               /\ rate_limit_hits' = rate_limit_hits + 1
               /\ backoff_seconds' > 0
               /\ tweet_buffer' = tweet_buffer
               /\ buffer_index' = buffer_index
        /\ RequestSent' =>
               (backoff_seconds > 0 => spout_now - last_poll_time >= backoff_seconds)
      ]_vars

\* a second poll was answered with 429, after the backoff period of the first
C33_Witness ==
    /\ Answered({429})
    /\ rate_limit_hits = 2
    /\ backoff_seconds > 0
    /\ last_poll_time > 1

\* C34: in local-file mode use_local_file stays true and no request is sent to the API.
C34_LocalModeIsFinal ==
    [][ use_local_file => use_local_file' /\ ~RequestSent' ]_vars

\* the spout polled the local file after a 401 had ended the polling of the API,
\* which had delivered tweets before
C34_Witness ==
    /\ use_local_file
    /\ bearer_token
    /\ last_tweet_id # None
    /\ spout_last.polled
    /\ ~RequestSent

\* C38: buffer_index stays within the buffer, a poll happens only when every tweet of the
\* buffer was handed out, and between polls the buffer is emitted in order, one tweet
\* per call.
C38_BufferHandedOutInOrder ==
    [][ /\ (0 <= buffer_index /\ buffer_index <= Len(tweet_buffer))'
        /\ spout_last'.polled => buffer_index = Len(tweet_buffer)
        /\ ~spout_last'.polled =>
               /\ tweet_buffer' = tweet_buffer
               /\ buffer_index' \in {buffer_index, buffer_index + 1}
        /\ spout_last'.emitted # None =>
               /\ buffer_index' = buffer_index + 1
               /\ spout_last'.emitted[1] = tweet_buffer[buffer_index'].id
      ]_vars

\* C39: backoff_seconds is 0 or between INITIAL_BACKOFF_SECONDS and MAX_BACKOFF_SECONDS.
C39_BackoffWithinLimits ==
    \/ backoff_seconds = 0
    \/ /\ INITIAL_BACKOFF_SECONDS <= backoff_seconds
       /\ backoff_seconds <= MAX_BACKOFF_SECONDS

(***************************************************************************)
(* Claims about NOAAClient and WriteBolt                                   *)
(***************************************************************************)
\* C35: at most MAX_REQUESTS_PER_DAY requests are sent in one counting period, and
\* no request is sent while request_count is MAX_REQUESTS_PER_DAY or more.
C35_DailyLimitEnforced ==
    /\ request_count + uncounted <= MAX_REQUESTS_PER_DAY
    /\ client_last.sent => client_last.counted < MAX_REQUESTS_PER_DAY

\* C40: in the topology every record WriteBolt.process took is counted in
\* records_written or still in the buffer.
C40_NoAckedRecordLost ==
    mode = "topology" => write_processed = records_written + Len(write_buffer)

====
